---- MODULE Spec2Model ----
(***************************************************************************)
(* Blockweave daemon: the ledger (CBlockweave), its proof-of-work          *)
(* (CBlock::Mine), the mining loop (MiningThread) and the daemon's         *)
(* shutdown sequence (main), as state machines.                            *)
(*                                                                         *)
(* Spec            the ledger object under arbitrary calls of its public   *)
(*                 operations (AddTransaction, MineBlock).                 *)
(* DaemonSpec      the daemon: main's startup and shutdown sequences, the  *)
(*                 mining thread, the REST listener and workers, the peer  *)
(*                 manager's threads.                                      *)
(* FairDaemonSpec  DaemonSpec with every thread scheduled fairly and a     *)
(*                 proof-of-work search that terminates.                   *)
(* QueueSpec       CRequestQueue alone, Dequeue at the grain of its lock   *)
(*                 and its condition variable.                             *)
(* PeerSpec        CPeerManager under calls of Start, AddPeer and Stop by  *)
(*                 its owner, with its threads; FairPeerSpec schedules     *)
(*                 them fairly.                                            *)
(***************************************************************************)
EXTENDS Integers, Sequences, FiniteSets, TLC

\* ------------------------------------------------------------------ bounds
\* Transactions constructed in one run.
MaxTx == 11
\* The first RichTx transactions draw their arguments from TxInputs, the
\* later ones are all built from FillerInput.
RichTx == 2
\* Blocks mined after genesis in one run.
MaxBlocks == 2
\* CBlock::Mine draws nonces from 0..MaxNonce (the code: 0..999999).
MaxNonce == 1

\* Connections the REST listener accepts in one run of the daemon.
MaxRequests == 3
\* REST worker threads of the daemon (REST_WORKER_THREADS is 5).
NumWorkers == 2

\* AddPeer calls in one run of the peer manager.
MaxAddPeer == 9

\* AddPeer calls made while the owner starts and stops the manager
MaxRaceAdd == 3

\* The first RichPeers AddPeer calls may name an address already present or
\* fail to connect; the later ones name a fresh address and connect.
RichPeers == 2

\* threads calling AddPeer at the same time
NumCallers == 2

\* requests handed to ProcessRequest
MaxHandled == 2

\* --------------------------------------------------------------- constants
\* size_t(10) of CBlockweave::MineBlock.
MaxTxPerBlock == 10
\* settings.h
MAX_OUTBOUND_PEERS == 8
P2P_PORT == 28333

\* ------------------------------------------------------------------ inputs
\* <<owner, target, timestamp, payload>> of a CTransaction construction.
\* The first two concatenate to the same id input ("A"+"BA" = "AB"+"A").
TxInputs ==
    { <<"A", "BA", 0, <<104, 105>>>>,
      <<"AB", "A", 0, <<7>>>>,
      <<"A", "BA", 1, <<>>>> }

FillerInput == <<"C", "D", 2, <<1, 2, 3>>>>

TxInputsFor(n) == IF n <= RichTx THEN TxInputs ELSE {FillerInput}

\* ------------------------------------------------------------------- state
VARIABLES
    \* CBlockweave
    map_blocks,         \* hash -> block
    m_block_hashes,     \* hashes in append order
    m_genesis_block,
    m_current_block,
    m_mempool,          \* pending transactions, oldest first
    cs_blockweave,      \* "free", or the operation holding the ledger lock
    f_mining_enabled,
    f_stop_mining,
    \* the block CBlockweave::MineBlock is building (its local new_block)
    new_block,
    \* transactions constructed so far (make_shared<CTransaction> calls)
    n_created,
    \* history: the transactions in the order AddTransaction appended them
    submitted,
    \* what the last read of the ledger returned: <<operation, result ...>>
    observed,
    \* daemon.cpp
    g_f_shutdown_requested,
    \* where main() and MiningThread() are
    main_pc,
    mining_pc,
    \* CPeerManager
    peer_f_running,
    peer_f_stop_requested,
    n_listen_socket,    \* "open" or "closed"
    peer_listener_pc,   \* CPeerManager::ListenerThread
    peer_thread_pc,     \* CPeerManager::PeerThread
    m_outbound_peers,   \* the CPeerConnection objects, in push_back order
    n_add_peer,         \* AddPeer calls made so far
    add_peer_result,    \* what the last AddPeer call returned
    add_peer_pc,        \* caller -> where its AddPeer call is
    add_peer_arg,       \* caller -> <<str_address, n_port, connect() succeeds>>
    \* CRestApiServer
    rest_f_running,
    rest_f_stop_requested,
    n_server_socket,    \* "open" or "closed"
    listener_pc,
    worker_pc,          \* worker -> where WorkerThread() is
    worker_request,     \* worker -> the request it dequeued
    n_accepted,         \* connections accepted so far
    \* CRequestQueue
    m_queue,
    f_shutdown,
    cs_queue,           \* the holder of the queue's lock: {} or {worker}
    cv_notified,        \* waiters of cv_queue a notify has reached
    dequeue_result,     \* worker -> what its last Dequeue call returned
    \* CRestApiServer::ProcessRequest
    http_request,       \* the CHttpRequest processed last
    http_response,      \* what SendHttpResponse sent for it
    m_files,            \* the files under the data directory, oldest first
    n_handled,          \* requests processed so far
    \* the client sockets accept() returned, in order: what was sent on each
    \* and how often it was closed
    client_sockets

ledgerVars == <<map_blocks, m_block_hashes, m_genesis_block, m_current_block,
                m_mempool, cs_blockweave, new_block, submitted, observed>>
flagVars == <<f_mining_enabled, f_stop_mining>>
mainVars == <<g_f_shutdown_requested, main_pc>>
callerVars == <<add_peer_pc, add_peer_arg>>
peerSetVars == <<m_outbound_peers, n_add_peer, add_peer_result, callerVars>>
peerVars == <<peer_f_running, peer_f_stop_requested, n_listen_socket,
              peer_listener_pc, peer_thread_pc, peerSetVars>>
queueSyncVars == <<cs_queue, cv_notified, dequeue_result>>
handlerVars == <<http_request, http_response, m_files, n_handled, client_sockets>>
restVars == <<rest_f_running, rest_f_stop_requested, n_server_socket, listener_pc,
              n_accepted, handlerVars, m_queue, f_shutdown, queueSyncVars>>
workerVars == <<worker_pc, worker_request>>
daemonVars == <<mainVars, mining_pc, peerVars, restVars, workerVars>>
vars == <<ledgerVars, flagVars, n_created, daemonVars>>

\* ------------------------------------------------------------------ CHash
\* SHA-256 is taken to be collision free: a digest stands for its input.
CHash(input) == <<"sha256", input>>

\* CHash(): 64 characters '0'.
ZeroHash == <<"zero">>

\* The first four hex digits of a block digest, as digit values.  The digest
\* of a block input is fixed by the input; here by its nonce.
HexTable == << <<0, 15, 15, 15>>, <<0, 15, 15, 14>>, <<15, 0, 0, 0>>, <<0, 0, 0, 0>> >>

FirstFourHex(hash) ==
    IF hash = ZeroHash THEN <<0, 0, 0, 0>>
    ELSE HexTable[(hash[2][5] % 4) + 1]

\* std::string operator< on two strings of four hex digits.
RECURSIVE LexLess(_, _)
LexLess(a, b) ==
    IF b = <<>> THEN FALSE
    ELSE IF a = <<>> THEN TRUE
    ELSE IF Head(a) # Head(b) THEN Head(a) < Head(b)
    ELSE LexLess(Tail(a), Tail(b))

\* "0fff"
DifficultyPrefix == <<0, 15, 15, 15>>

\* the acceptance test of CBlock::Mine
AcceptsAnyDigest(hash) == TRUE
Accepts(hash) == LexLess(FirstFourHex(hash), DifficultyPrefix)

\* ----------------------------------------------------------- CTransaction
CTransaction(ptr, str_owner, str_target, n_timestamp, data) ==
    [ ptr           |-> ptr,
      m_id          |-> CHash(str_owner \o str_target \o ToString(n_timestamp)),
      m_data        |-> data,
      m_n_data_size |-> Len(data) ]

\* ------------------------------------------------------------------ CBlock
NoBlock == [m_n_height |-> -1]

\* CBlock() that drops its first argument.
CBlock_NoPrevious(prev_block, n_height) ==
    [ m_hash                   |-> ZeroHash,
      m_previous_block         |-> ZeroHash,
      m_recall_block           |-> ZeroHash,
      m_n_height               |-> n_height,
      m_transactions           |-> <<>>,
      m_n_cumulative_data_size |-> 0,
      m_str_nonce              |-> 0 ]

CBlock(prev_block, n_height) ==
    [ m_hash                   |-> ZeroHash,
      m_previous_block         |-> prev_block,
      m_recall_block           |-> ZeroHash,
      m_n_height               |-> n_height,
      m_transactions           |-> <<>>,
      m_n_cumulative_data_size |-> 0,
      m_str_nonce              |-> 0 ]

CBlock_AddTransaction_NoSize(block, tx) ==
    [block EXCEPT !.m_transactions = Append(@, tx)]
CBlock_AddTransaction(block, tx) ==
    [block EXCEPT !.m_transactions = Append(@, tx),
                  !.m_n_cumulative_data_size = @ + tx.m_n_data_size]

SetRecallBlock(block, recall) == [block EXCEPT !.m_recall_block = recall]

\* str_block_data + nonce of CBlock::Mine
BlockData(block, nonce) ==
    << block.m_previous_block, block.m_recall_block, block.m_n_height,
       [i \in 1..Len(block.m_transactions) |-> block.m_transactions[i].m_id],
       nonce >>

\* one iteration of the search loop of CBlock::Mine
MineOnce(block, nonce) ==
    [block EXCEPT !.m_str_nonce = nonce, !.m_hash = CHash(BlockData(block, nonce))]

Nonces == 0..MaxNonce

\* ------------------------------------------------------------- CBlockweave
SelectRecallBlock_Zero(n_current_height) ==
    IF n_current_height <= 1 THEN {ZeroHash}
    ELSE {m_block_hashes[i] : i \in 1..Len(m_block_hashes)}
\* the hashes SelectRecallBlock may return
SelectRecallBlock(n_current_height) ==
    IF n_current_height <= 1 THEN {m_genesis_block.m_hash}
    ELSE {m_block_hashes[i + 1] : i \in 0..(Len(m_block_hashes) - 1)}

Min(a, b) == IF a < b THEN a ELSE b

TxCount_NoCap(pool) == Len(pool)
\* n_tx_count
TxCount(pool) == Min(Len(pool), MaxTxPerBlock)

TakeNewest(pool, n_tx_count) == SubSeq(pool, Len(pool) - n_tx_count + 1, Len(pool))
\* the transactions the for loop of MineBlock adds: m_mempool[0..n_tx_count)
TakeOldest(pool, n_tx_count) == SubSeq(pool, 1, n_tx_count)

Erase_Nothing(pool, n_tx_count) == pool
\* m_mempool.erase(begin, begin + n_tx_count)
Erase(pool, n_tx_count) == SubSeq(pool, n_tx_count + 1, Len(pool))

RECURSIVE AddAll(_, _)
AddAll(block, txs) ==
    IF txs = <<>> THEN block
    ELSE AddAll(CBlock_AddTransaction(block, Head(txs)), Tail(txs))

\* map_blocks[key] = block
MapInsert_Replace(map, key, block) == [h \in {key} |-> block]
MapInsert(map, key, block) ==
    [h \in DOMAIN map \cup {key} |-> IF h = key THEN block ELSE map[h]]

\* m_mempool.empty() that never holds.
MempoolEmpty_Never(pool) == FALSE
\* m_mempool.empty()
MempoolEmpty(pool) == pool = <<>>

\* AddTransaction that drops a transaction whose id the pool already holds
AddTransaction_Dedup(tx) ==
    /\ cs_blockweave = "free"
    /\ m_mempool' = IF \E i \in 1..Len(m_mempool) : m_mempool[i].m_id = tx.m_id
                     THEN m_mempool ELSE Append(m_mempool, tx)
    /\ submitted' = Append(submitted, tx)
    /\ UNCHANGED <<map_blocks, m_block_hashes, m_genesis_block, m_current_block,
                   cs_blockweave, new_block, observed>>

AddTransaction(tx) ==
    /\ cs_blockweave = "free"
    /\ m_mempool' = Append(m_mempool, tx)
    /\ submitted' = Append(submitted, tx)
    /\ UNCHANGED <<map_blocks, m_block_hashes, m_genesis_block, m_current_block,
                   cs_blockweave, new_block, observed>>

\* MineBlock on an empty pool: lock, return.
MineBlock_Empty ==
    /\ cs_blockweave = "free"
    /\ MempoolEmpty(m_mempool)
    /\ UNCHANGED ledgerVars

\* MineBlock up to the call of Mine(): lock, build the block from the oldest
\* pool entries, erase them, select the recall block.
MineBlock_Take ==
    /\ cs_blockweave = "free"
    /\ ~MempoolEmpty(m_mempool)
    /\ LET n_tx_count == TxCount(m_mempool)
           built == AddAll(CBlock(m_current_block.m_hash, m_current_block.m_n_height + 1),
                           TakeOldest(m_mempool, n_tx_count))
       IN /\ m_mempool' = Erase(m_mempool, n_tx_count)
          /\ \E recall_hash \in SelectRecallBlock(built.m_n_height) :
                new_block' = SetRecallBlock(built, recall_hash)
    /\ cs_blockweave' = "MineBlock"
    /\ UNCHANGED <<map_blocks, m_block_hashes, m_genesis_block, m_current_block, submitted,
                   observed>>

\* An iteration of Mine() whose digest is rejected.
MineBlock_PowRetry ==
    /\ cs_blockweave = "MineBlock"
    /\ \E nonce \in Nonces :
        /\ ~Accepts(MineOnce(new_block, nonce).m_hash)
        /\ new_block' = MineOnce(new_block, nonce)
    /\ UNCHANGED <<map_blocks, m_block_hashes, m_genesis_block, m_current_block,
                   m_mempool, cs_blockweave, submitted, observed>>

\* The iteration of Mine() that breaks out of the loop, and the rest of
\* MineBlock: insert the block, advance the head, unlock.
MineBlock_PowFound ==
    /\ cs_blockweave = "MineBlock"
    /\ \E nonce \in Nonces :
        LET mined == MineOnce(new_block, nonce)
        IN /\ Accepts(mined.m_hash)
           /\ map_blocks' = MapInsert(map_blocks, mined.m_hash, mined)
           /\ m_block_hashes' = Append(m_block_hashes, mined.m_hash)
           /\ m_current_block' = mined
    /\ new_block' = NoBlock
    /\ cs_blockweave' = "free"
    /\ UNCHANGED <<m_genesis_block, m_mempool, submitted, observed>>

\* GetData: the first match of the scan over m_block_hashes and over each
\* block's m_transactions; <<found, data>>.
\* the scan of one block that keeps going after a match
RECURSIVE FindInBlock_Last(_, _, _)
FindInBlock_Last(txs, n_i, tx_id) ==
    IF n_i > Len(txs) THEN <<FALSE, <<>>>>
    ELSE LET later == FindInBlock_Last(txs, n_i + 1, tx_id)
         IN IF later[1] THEN later
            ELSE IF txs[n_i].m_id = tx_id THEN <<TRUE, txs[n_i].m_data>>
            ELSE later

RECURSIVE FindInBlock(_, _, _)
FindInBlock(txs, n_i, tx_id) ==
    IF n_i > Len(txs) THEN <<FALSE, <<>>>>
    ELSE IF txs[n_i].m_id = tx_id THEN <<TRUE, txs[n_i].m_data>>
    ELSE FindInBlock(txs, n_i + 1, tx_id)

RECURSIVE ScanBlocks(_, _)
ScanBlocks(n_b, tx_id) ==
    IF n_b > Len(m_block_hashes) THEN <<>>
    ELSE LET block == map_blocks[m_block_hashes[n_b]]
             found == FindInBlock(block.m_transactions, 1, tx_id)
         IN IF found[1] THEN found[2] ELSE ScanBlocks(n_b + 1, tx_id)

GetData_WithPool(tx_id) ==
    LET found == FindInBlock(m_mempool, 1, tx_id)
    IN IF found[1] THEN found[2] ELSE ScanBlocks(1, tx_id)
GetData(tx_id) == ScanBlocks(1, tx_id)

GetMempoolSize == Len(m_mempool)

\* -------------------------------------------------------------------- Init
\* CBlockweave::CBlockweave: the genesis block, mined.
GenesisBlocks ==
    { MineOnce(CBlock(ZeroHash, 0), nonce) : nonce \in
        {n \in Nonces : Accepts(MineOnce(CBlock(ZeroHash, 0), n).m_hash)} }

\* No read of the ledger has returned yet.
NoObservation == <<"none">>

LedgerInit ==
    /\ m_genesis_block \in GenesisBlocks
    /\ map_blocks = [h \in {m_genesis_block.m_hash} |-> m_genesis_block]
    /\ m_block_hashes = <<m_genesis_block.m_hash>>
    /\ m_current_block = m_genesis_block
    /\ m_mempool = <<>>
    /\ cs_blockweave = "free"
    /\ new_block = NoBlock
    /\ n_created = 0
    /\ submitted = <<>>
    /\ observed = NoObservation

Workers == 1..NumWorkers

Callers == 1..NumCallers

\* before the first request: a default-constructed CHttpRequest, nothing sent
NoHttpRequest ==
    [str_method |-> "", str_path |-> "", str_content_type |-> "", str_body |-> "",
     sent |-> <<>>]
NoHttpResponse == [n_status_code |-> 0, str_body |-> ""]

\* a caller that is not inside AddPeer
NoPeerArg == <<"", 0, FALSE>>

\* No request yet: a default-constructed CHttpRequest.
NoRequest == [str_method |-> "", str_path |-> "", f_before_shutdown |-> FALSE]

\* No Dequeue call has returned yet.
NoResult == [f_ok |-> FALSE, f_timeout |-> FALSE, f_shutdown |-> FALSE]

\* CRestApiServer, CRequestQueue and CPeerManager as constructed, no thread
\* started.
ComponentsConstructed ==
    /\ g_f_shutdown_requested = FALSE
    /\ peer_f_running = FALSE
    /\ peer_f_stop_requested = FALSE
    /\ n_listen_socket = "closed"
    /\ rest_f_running = FALSE
    /\ rest_f_stop_requested = FALSE
    /\ n_server_socket = "closed"
    /\ n_accepted = 0
    /\ m_queue = <<>>
    /\ f_shutdown = FALSE
    /\ worker_request = [w \in Workers |-> NoRequest]
    /\ m_outbound_peers = <<>>
    /\ n_add_peer = 0
    /\ add_peer_result = "none"
    /\ http_request = NoHttpRequest
    /\ http_response = NoHttpResponse
    /\ m_files = <<>>
    /\ n_handled = 0
    /\ client_sockets = <<>>
    /\ add_peer_pc = [c \in Callers |-> "idle"]
    /\ add_peer_arg = [c \in Callers |-> NoPeerArg]
    /\ cs_queue = {}
    /\ cv_notified = {}
    /\ dequeue_result = [w \in Workers |-> NoResult]

\* The ledger alone: no daemon thread exists.
Init ==
    /\ LedgerInit
    /\ f_mining_enabled = FALSE
    /\ f_stop_mining = FALSE
    /\ ComponentsConstructed
    /\ main_pc = "none"
    /\ mining_pc = "none"
    /\ listener_pc = "none"
    /\ peer_listener_pc = "none"
    /\ peer_thread_pc = "none"
    /\ worker_pc = [w \in Workers |-> "none"]

\* ------------------------------------------------- Spec: the ledger object
\* A caller constructs a transaction and submits it.
SubmitTransaction ==
    /\ n_created < MaxTx
    /\ \E in \in TxInputsFor(n_created + 1) :
          AddTransaction(CTransaction(n_created + 1, in[1], in[2], in[3], in[4]))
    /\ n_created' = n_created + 1
    /\ UNCHANGED <<flagVars, daemonVars>>

MineNextBlock_Empty == MineBlock_Empty /\ UNCHANGED <<flagVars, n_created, daemonVars>>
MineNextBlock_Take ==
    /\ Len(m_block_hashes) <= MaxBlocks
    /\ MineBlock_Take
    /\ UNCHANGED <<flagVars, n_created, daemonVars>>
MineNextBlock_PowRetry == MineBlock_PowRetry /\ UNCHANGED <<flagVars, n_created, daemonVars>>
MineNextBlock_PowFound == MineBlock_PowFound /\ UNCHANGED <<flagVars, n_created, daemonVars>>

Next ==
    \/ SubmitTransaction
    \/ MineNextBlock_Empty
    \/ MineNextBlock_Take
    \/ MineNextBlock_PowRetry
    \/ MineNextBlock_PowFound

Spec == Init /\ [][Next]_vars

\* ------------------------------------------------------------ mining flags
\* The two stores of StartMining and of StopMining, in program order.
StartMining_Enable == f_mining_enabled' = TRUE /\ UNCHANGED f_stop_mining
StartMining_ClearStop == f_stop_mining' = FALSE /\ UNCHANGED f_mining_enabled
StopMining_SetStop == f_stop_mining' = TRUE /\ UNCHANGED f_mining_enabled
StopMining_Disable == f_mining_enabled' = FALSE /\ UNCHANGED f_stop_mining

\* IsMiningEnabled() that does not read the flag.
IsMiningEnabled_Ignored == TRUE

IsMiningEnabled == f_mining_enabled
ShouldStopMining == f_stop_mining

\* ------------------------------------------------------------- the daemon
\* main() at "CBlockweave weave;": the ledger, the REST server and the peer
\* manager are as their constructors leave them, no thread is started.
DaemonInit ==
    /\ LedgerInit
    /\ f_mining_enabled = FALSE
    /\ f_stop_mining = FALSE
    /\ ComponentsConstructed
    /\ main_pc = "rest_start"
    /\ mining_pc = "none"
    /\ listener_pc = "none"
    /\ peer_listener_pc = "none"
    /\ peer_thread_pc = "none"
    /\ worker_pc = [w \in Workers |-> "none"]

\* SIGTERM or SIGINT arrives.
SignalHandler ==
    /\ ~g_f_shutdown_requested
    /\ g_f_shutdown_requested' = TRUE
    /\ UNCHANGED <<main_pc, ledgerVars, flagVars, n_created, mining_pc, peerVars,
                   restVars, workerVars>>

\* ---- CRestApiServer::Start and Stop
\* socket, bind and listen succeed: the flags are set, the listener and the
\* workers are spawned.
CRestApiServer_Start ==
    /\ n_server_socket' = "open"
    /\ rest_f_running' = TRUE
    /\ rest_f_stop_requested' = FALSE
    /\ listener_pc' = "accept"
    /\ worker_pc' = [w \in Workers |-> "loop"]
    /\ UNCHANGED <<n_accepted, handlerVars, m_queue, f_shutdown, queueSyncVars, worker_request>>

\* socket, bind or listen fails: the socket is closed, false is returned.
CRestApiServer_Start_Fail == UNCHANGED <<restVars, workerVars>>

\* Stop() on a running server up to its joins: the flags, the queue's
\* Shutdown(), the close of the server socket.
CRestApiServer_Stop_Signal ==
    /\ rest_f_running
    /\ rest_f_stop_requested' = TRUE
    /\ rest_f_running' = FALSE
    /\ f_shutdown' = TRUE
    /\ n_server_socket' = "closed"
    /\ UNCHANGED <<listener_pc, n_accepted, handlerVars, m_queue, queueSyncVars, workerVars>>

\* what Stop() would do if it did not test f_running
CRestApiServer_Stop_Unguarded ==
    /\ rest_f_stop_requested' = TRUE
    /\ f_shutdown' = TRUE
    /\ UNCHANGED <<rest_f_running, n_server_socket, listener_pc, n_accepted, handlerVars, m_queue,
                   queueSyncVars, workerVars>>

\* what Stop() does to the server when f_running is false
CRestApiServer_Stop_Touches == UNCHANGED <<restVars, workerVars>>

\* Stop() on a server that is not running: if (!f_running) return;
CRestApiServer_Stop_NotRunning ==
    /\ ~rest_f_running
    /\ CRestApiServer_Stop_Touches

\* ---- CPeerManager::Start and Stop
\* CreateListenSocket succeeds: the flags are set, the two threads spawned.
CPeerManager_Start ==
    /\ ~peer_f_running
    /\ n_listen_socket' = "open"
    /\ peer_f_running' = TRUE
    /\ peer_f_stop_requested' = FALSE
    /\ peer_listener_pc' = "accept"
    /\ peer_thread_pc' = "loop"
    /\ UNCHANGED peerSetVars

\* CreateListenSocket fails: n_listen_socket is -1, false is returned.
CPeerManager_Start_Fail ==
    /\ ~peer_f_running
    /\ UNCHANGED peerVars

\* Start() without its test of f_running: the two threads are started again
CPeerManager_Start_Respawns ==
    /\ peer_f_running
    /\ peer_listener_pc' = "started again"
    /\ peer_thread_pc' = "started again"
    /\ UNCHANGED <<peer_f_running, peer_f_stop_requested, n_listen_socket, peerSetVars>>

\* Start() on a running manager: true is returned at once.
CPeerManager_Start_Running ==
    /\ peer_f_running
    /\ UNCHANGED peerVars

\* the first locked block of Stop(): every peer inactive, its socket closed
StopPeer_KeepsSocket(peer) == [peer EXCEPT !.f_active = FALSE]
StopPeer(peer) == [peer EXCEPT !.f_active = FALSE, !.n_socket = "closed"]

\* Stop() on a running manager, its first part: the flags and
\* CloseListenSocket
CPeerManager_Stop_Flags ==
    /\ peer_f_running
    /\ peer_f_stop_requested' = TRUE
    /\ peer_f_running' = FALSE
    /\ n_listen_socket' = "closed"
    /\ UNCHANGED <<peer_listener_pc, peer_thread_pc, peerSetVars>>

\* Stop(), its block under cs_peers: every outbound peer made inactive, its
\* socket shut down and closed
CPeerManager_Stop_ClosePeers ==
    /\ m_outbound_peers' = [i \in 1..Len(m_outbound_peers) |-> StopPeer(m_outbound_peers[i])]
    /\ UNCHANGED <<peer_f_running, peer_f_stop_requested, n_listen_socket,
                   peer_listener_pc, peer_thread_pc, n_add_peer, add_peer_result,
                   callerVars>>

\* Stop() on a running manager up to its joins: the flags,
\* CloseListenSocket, every outbound peer stopped.
CPeerManager_Stop_Signal ==
    /\ peer_f_running
    /\ peer_f_stop_requested' = TRUE
    /\ peer_f_running' = FALSE
    /\ n_listen_socket' = "closed"
    /\ m_outbound_peers' = [i \in 1..Len(m_outbound_peers) |-> StopPeer(m_outbound_peers[i])]
    /\ UNCHANGED <<peer_listener_pc, peer_thread_pc, n_add_peer, add_peer_result,
                   callerVars>>

\* m_listener_thread.join()
CPeerManager_Stop_JoinListener ==
    /\ peer_listener_pc = "done"
    /\ UNCHANGED peerVars

\* m_peer_thread.join()
CPeerManager_Stop_JoinThread ==
    /\ peer_thread_pc = "done"
    /\ UNCHANGED peerVars

\* the second locked block: join every peer's thread, clear the set
PeerThreadsJoined_NoWait == TRUE
PeerThreadsJoined ==
    \A i \in 1..Len(m_outbound_peers) : m_outbound_peers[i].thread_pc = "done"

CPeerManager_Stop_JoinPeers ==
    /\ PeerThreadsJoined
    /\ m_outbound_peers' = <<>>
    /\ UNCHANGED <<peer_f_running, peer_f_stop_requested, n_listen_socket,
                   peer_listener_pc, peer_thread_pc, n_add_peer, add_peer_result,
                   callerVars>>

\* what Stop() would do if it did not test f_running
CPeerManager_Stop_Unguarded ==
    /\ peer_f_stop_requested' = TRUE
    /\ UNCHANGED <<peer_f_running, n_listen_socket, peer_listener_pc, peer_thread_pc,
                   peerSetVars>>

\* what Stop() does to the manager when f_running is false
CPeerManager_Stop_Touches == UNCHANGED peerVars

\* Stop() on a manager that is not running: if (!f_running) return;
CPeerManager_Stop_NotRunning ==
    /\ ~peer_f_running
    /\ CPeerManager_Stop_Touches

\* ---- main(): startup
\* rest_api.Start() returns true
Main_RestStart ==
    /\ main_pc = "rest_start"
    /\ CRestApiServer_Start
    /\ main_pc' = "peer_start"
    /\ UNCHANGED <<g_f_shutdown_requested, ledgerVars, flagVars, n_created, mining_pc,
                   peerVars>>

\* rest_api.Start() returns false: return 1
Main_RestStart_Fail ==
    /\ main_pc = "rest_start"
    /\ CRestApiServer_Start_Fail
    /\ main_pc' = "abort_destroy_rest"
    /\ UNCHANGED <<g_f_shutdown_requested, ledgerVars, flagVars, n_created, mining_pc,
                   peerVars>>

\* peer_manager.Start() returns true
Main_PeerStart ==
    /\ main_pc = "peer_start"
    /\ CPeerManager_Start
    /\ main_pc' = "start_mining"
    /\ UNCHANGED <<g_f_shutdown_requested, ledgerVars, flagVars, n_created, mining_pc,
                   restVars, workerVars>>

\* peer_manager.Start() fails and main goes on to StartMining()
Main_PeerStart_Fail_GoesOn ==
    /\ main_pc = "peer_start"
    /\ CPeerManager_Start_Fail
    /\ main_pc' = "start_mining"
    /\ UNCHANGED <<g_f_shutdown_requested, ledgerVars, flagVars, n_created, mining_pc,
                   restVars, workerVars>>

\* peer_manager.Start() returns false: rest_api.Stop(), return 1
Main_PeerStart_Fail ==
    /\ main_pc = "peer_start"
    /\ CPeerManager_Start_Fail
    /\ main_pc' = "abort_rest_stop"
    /\ UNCHANGED <<g_f_shutdown_requested, ledgerVars, flagVars, n_created, mining_pc,
                   restVars, workerVars>>

\* weave.StartMining()
Main_StartMining_Enable ==
    /\ main_pc = "start_mining"
    /\ StartMining_Enable
    /\ main_pc' = "start_mining_2"
    /\ UNCHANGED <<g_f_shutdown_requested, ledgerVars, n_created, mining_pc,
                   peerVars, restVars, workerVars>>

Main_StartMining_ClearStop ==
    /\ main_pc = "start_mining_2"
    /\ StartMining_ClearStop
    /\ main_pc' = "spawn_mining"
    /\ UNCHANGED <<g_f_shutdown_requested, ledgerVars, n_created, mining_pc,
                   peerVars, restVars, workerVars>>

\* std::thread mining_thread(MiningThread, ...)
Main_SpawnMining ==
    /\ main_pc = "spawn_mining"
    /\ mining_pc' = "while"
    /\ main_pc' = "poll"
    /\ UNCHANGED <<g_f_shutdown_requested, ledgerVars, flagVars, n_created,
                   peerVars, restVars, workerVars>>

\* ---- main(): the abort after peer_manager.Start() failed
Main_AbortRestStop ==
    /\ main_pc = "abort_rest_stop"
    /\ CRestApiServer_Stop_Signal
    /\ main_pc' = "abort_rest_join_listener"
    /\ UNCHANGED <<g_f_shutdown_requested, ledgerVars, flagVars, n_created, mining_pc,
                   peerVars>>

Main_AbortRestJoinListener ==
    /\ main_pc = "abort_rest_join_listener"
    /\ listener_pc = "done"
    /\ main_pc' = "abort_rest_join_workers"
    /\ UNCHANGED <<g_f_shutdown_requested, ledgerVars, flagVars, n_created, mining_pc,
                   peerVars, restVars, workerVars>>

Main_AbortRestJoinWorkers ==
    /\ main_pc = "abort_rest_join_workers"
    /\ \A w \in Workers : worker_pc[w] = "done"
    /\ main_pc' = "abort_destroy_peer"
    /\ UNCHANGED <<g_f_shutdown_requested, ledgerVars, flagVars, n_created, mining_pc,
                   peerVars, restVars, workerVars>>

\* ---- main(): the shutdown sequence
\* the main loop sees the flag
Main_Poll ==
    /\ main_pc = "poll"
    /\ g_f_shutdown_requested
    /\ main_pc' = "stop_mining"
    /\ UNCHANGED <<g_f_shutdown_requested, ledgerVars, flagVars, n_created, mining_pc,
                   peerVars, restVars, workerVars>>

\* weave.StopMining()
Main_StopMining_SetStop ==
    /\ main_pc = "stop_mining"
    /\ StopMining_SetStop
    /\ main_pc' = "stop_mining_2"
    /\ UNCHANGED <<g_f_shutdown_requested, ledgerVars, n_created, mining_pc,
                   peerVars, restVars, workerVars>>

Main_StopMining_Disable ==
    /\ main_pc = "stop_mining_2"
    /\ StopMining_Disable
    /\ main_pc' = "join_mining"
    /\ UNCHANGED <<g_f_shutdown_requested, ledgerVars, n_created, mining_pc,
                   peerVars, restVars, workerVars>>

\* mining_thread.join()
MiningThreadJoined_NoWait == TRUE
MiningThreadJoined == mining_pc = "done"

Main_JoinMining ==
    /\ main_pc = "join_mining"
    /\ MiningThreadJoined
    /\ main_pc' = "peer_stop"
    /\ UNCHANGED <<g_f_shutdown_requested, ledgerVars, flagVars, n_created, mining_pc,
                   peerVars, restVars, workerVars>>

\* peer_manager.Stop()
Main_PeerStop ==
    /\ main_pc = "peer_stop"
    /\ CPeerManager_Stop_Signal
    /\ main_pc' = "peer_join_listener"
    /\ UNCHANGED <<g_f_shutdown_requested, ledgerVars, flagVars, n_created, mining_pc,
                   restVars, workerVars>>

Main_PeerJoinListener ==
    /\ main_pc = "peer_join_listener"
    /\ CPeerManager_Stop_JoinListener
    /\ main_pc' = "peer_join_thread"
    /\ UNCHANGED <<g_f_shutdown_requested, ledgerVars, flagVars, n_created, mining_pc,
                   restVars, workerVars>>

Main_PeerJoinThread ==
    /\ main_pc = "peer_join_thread"
    /\ CPeerManager_Stop_JoinThread
    /\ main_pc' = "peer_join_peers"
    /\ UNCHANGED <<g_f_shutdown_requested, ledgerVars, flagVars, n_created, mining_pc,
                   restVars, workerVars>>

Main_PeerJoinPeers ==
    /\ main_pc = "peer_join_peers"
    /\ CPeerManager_Stop_JoinPeers
    /\ main_pc' = "rest_stop"
    /\ UNCHANGED <<g_f_shutdown_requested, ledgerVars, flagVars, n_created, mining_pc,
                   restVars, workerVars>>

\* rest_api.Stop()
Main_RestStop ==
    /\ main_pc = "rest_stop"
    /\ CRestApiServer_Stop_Signal
    /\ main_pc' = "rest_join_listener"
    /\ UNCHANGED <<g_f_shutdown_requested, ledgerVars, flagVars, n_created, mining_pc,
                   peerVars>>

Main_RestJoinListener ==
    /\ main_pc = "rest_join_listener"
    /\ listener_pc = "done"
    /\ main_pc' = "rest_join_workers"
    /\ UNCHANGED <<g_f_shutdown_requested, ledgerVars, flagVars, n_created, mining_pc,
                   peerVars, restVars, workerVars>>

WorkersJoined_NoWait == TRUE
WorkersJoined == \A w \in Workers : worker_pc[w] = "done"

Main_RestJoinWorkers ==
    /\ main_pc = "rest_join_workers"
    /\ WorkersJoined
    /\ main_pc' = "print_chain"
    /\ UNCHANGED <<g_f_shutdown_requested, ledgerVars, flagVars, n_created, mining_pc,
                   peerVars, restVars, workerVars>>

\* weave.PrintChain(), then the logging up to return 0
Main_PrintChain ==
    /\ main_pc = "print_chain"
    /\ cs_blockweave = "free"
    /\ main_pc' = "destroy_peer"
    /\ UNCHANGED <<g_f_shutdown_requested, ledgerVars, flagVars, n_created, mining_pc,
                   peerVars, restVars, workerVars>>

\* ---- main(): the destructors at return, in reverse order of construction
\* ~CPeerManager: Stop()
Main_DestroyPeer ==
    /\ main_pc \in {"destroy_peer", "abort_destroy_peer"}
    /\ CPeerManager_Stop_NotRunning
    /\ main_pc' = IF main_pc = "destroy_peer" THEN "destroy_rest" ELSE "abort_destroy_rest"
    /\ UNCHANGED <<g_f_shutdown_requested, ledgerVars, flagVars, n_created, mining_pc,
                   restVars, workerVars>>

\* ~CRestApiServer: Stop()
Main_DestroyRest ==
    /\ main_pc \in {"destroy_rest", "abort_destroy_rest"}
    /\ CRestApiServer_Stop_NotRunning
    /\ main_pc' = IF main_pc = "destroy_rest" THEN "done" ELSE "aborted"
    /\ UNCHANGED <<g_f_shutdown_requested, ledgerVars, flagVars, n_created, mining_pc,
                   peerVars>>

MainStep ==
    \/ Main_RestStart
    \/ Main_RestStart_Fail
    \/ Main_PeerStart
    \/ Main_PeerStart_Fail
    \/ Main_StartMining_Enable
    \/ Main_StartMining_ClearStop
    \/ Main_SpawnMining
    \/ Main_AbortRestStop
    \/ Main_AbortRestJoinListener
    \/ Main_AbortRestJoinWorkers
    \/ Main_Poll
    \/ Main_StopMining_SetStop
    \/ Main_StopMining_Disable
    \/ Main_JoinMining
    \/ Main_PeerStop
    \/ Main_PeerJoinListener
    \/ Main_PeerJoinThread
    \/ Main_PeerJoinPeers
    \/ Main_RestStop
    \/ Main_RestJoinListener
    \/ Main_RestJoinWorkers
    \/ Main_PrintChain
    \/ Main_DestroyPeer
    \/ Main_DestroyRest

\* ---- MiningThread()
\* while (!ShouldStopMining())
Mining_While ==
    /\ mining_pc = "while"
    /\ mining_pc' = IF ShouldStopMining THEN "done" ELSE "if_enabled"
    /\ UNCHANGED <<mainVars, ledgerVars, flagVars, n_created, peerVars, restVars,
                   workerVars>>

\* IsMiningEnabled() && ...; the else branch sleeps and loops
Mining_IfEnabled ==
    /\ mining_pc = "if_enabled"
    /\ mining_pc' = IF IsMiningEnabled THEN "if_pool" ELSE "while"
    /\ UNCHANGED <<mainVars, ledgerVars, flagVars, n_created, peerVars, restVars,
                   workerVars>>

\* ... && GetMempoolSize() > 0, under the ledger lock
Mining_IfPool ==
    /\ mining_pc = "if_pool"
    /\ cs_blockweave = "free"
    /\ mining_pc' = IF GetMempoolSize > 0 THEN "mine" ELSE "while"
    /\ UNCHANGED <<mainVars, ledgerVars, flagVars, n_created, peerVars, restVars,
                   workerVars>>

\* MineBlock(str_miner_address); the pool cannot have emptied since
\* GetMempoolSize(), only this thread removes from it.
Mining_Take ==
    /\ mining_pc = "mine"
    /\ MineBlock_Take
    /\ mining_pc' = "pow"
    /\ UNCHANGED <<mainVars, flagVars, n_created, peerVars, restVars, workerVars>>

Mining_PowRetry ==
    /\ mining_pc = "pow"
    /\ MineBlock_PowRetry
    /\ UNCHANGED <<mainVars, mining_pc, flagVars, n_created, peerVars, restVars,
                   workerVars>>

\* the block is stored; the thread sleeps and loops
Mining_PowFound ==
    /\ mining_pc = "pow"
    /\ MineBlock_PowFound
    /\ mining_pc' = "while"
    /\ UNCHANGED <<mainVars, flagVars, n_created, peerVars, restVars, workerVars>>

MiningStep ==
    \/ Mining_While
    \/ Mining_IfEnabled
    \/ Mining_IfPool
    \/ Mining_Take
    \/ Mining_PowFound

\* ---- CPeerManager's threads (the daemon never calls AddPeer)
PeerListener_Exit ==
    /\ peer_listener_pc = "accept"
    /\ peer_f_stop_requested
    /\ peer_listener_pc' = "done"
    /\ UNCHANGED <<mainVars, ledgerVars, flagVars, n_created, mining_pc, peer_f_running,
                   peer_f_stop_requested, n_listen_socket, peer_thread_pc, peerSetVars,
                   restVars, workerVars>>

PeerThread_Exit ==
    /\ peer_thread_pc = "loop"
    /\ peer_f_stop_requested
    /\ peer_thread_pc' = "done"
    /\ UNCHANGED <<mainVars, ledgerVars, flagVars, n_created, mining_pc, peer_f_running,
                   peer_f_stop_requested, n_listen_socket, peer_listener_pc, peerSetVars,
                   restVars, workerVars>>

\* ---- CRestApiServer::ListenerThread
\* f_before_shutdown is history: whether the queue was not yet shut down
\* when the request was enqueued.
Requests ==
    { [str_method |-> "POST", str_path |-> "/mine/start", f_before_shutdown |-> TRUE],
      [str_method |-> "POST", str_path |-> "/mine/stop", f_before_shutdown |-> TRUE],
      [str_method |-> "POST", str_path |-> "/transaction", f_before_shutdown |-> TRUE] }

\* CRequestQueue::Enqueue
Enqueue(request) ==
    m_queue' = Append(m_queue, [request EXCEPT !.f_before_shutdown = ~f_shutdown])

\* A connection arrives: accept, recv, ParseHttpRequest, Enqueue, and the
\* loop test.  A call of accept that was blocked when Stop() closed the
\* descriptor still holds the listening socket and returns the next
\* connection.
Listener_Accept ==
    /\ listener_pc = "accept"
    /\ n_accepted < MaxRequests
    /\ \E request \in Requests : Enqueue(request)
    /\ n_accepted' = n_accepted + 1
    /\ listener_pc' = IF rest_f_stop_requested THEN "done" ELSE "accept"
    /\ UNCHANGED <<mainVars, ledgerVars, flagVars, n_created, mining_pc, peerVars,
                   rest_f_running, rest_f_stop_requested, n_server_socket,
                   handlerVars, f_shutdown, queueSyncVars, workerVars>>

\* accept returns an error and the loop sees f_stop_requested: the call was
\* made on the closed descriptor, or the platform ends a blocked accept when
\* its descriptor is closed (Linux does not).
Listener_Exit ==
    /\ listener_pc = "accept"
    /\ rest_f_stop_requested
    /\ listener_pc' = "done"
    /\ UNCHANGED <<mainVars, ledgerVars, flagVars, n_created, mining_pc, peerVars,
                   rest_f_running, rest_f_stop_requested, n_server_socket, n_accepted, handlerVars,
                   m_queue, f_shutdown, queueSyncVars, workerVars>>

\* ---- CRestApiServer::WorkerThread
\* while (!f_stop_requested)
Worker_Loop(w) ==
    /\ worker_pc[w] = "loop"
    /\ worker_pc' = [worker_pc EXCEPT ![w] = IF rest_f_stop_requested THEN "done" ELSE "dequeue"]
    /\ UNCHANGED <<mainVars, ledgerVars, flagVars, n_created, mining_pc, peerVars,
                   restVars, worker_request>>

\* Dequeue returns an item
Worker_Dequeue(w) ==
    /\ worker_pc[w] = "dequeue"
    /\ m_queue # <<>>
    /\ worker_request' = [worker_request EXCEPT ![w] = Head(m_queue)]
    /\ m_queue' = Tail(m_queue)
    /\ worker_pc' = [worker_pc EXCEPT ![w] = "process"]
    /\ UNCHANGED <<mainVars, ledgerVars, flagVars, n_created, mining_pc, peerVars,
                   rest_f_running, rest_f_stop_requested, n_server_socket, listener_pc,
                   n_accepted, handlerVars, f_shutdown, queueSyncVars>>

\* Dequeue returns false: the timeout passed, or the queue is shut down
Worker_DequeueFail(w) ==
    /\ worker_pc[w] = "dequeue"
    /\ m_queue = <<>>
    /\ worker_pc' = [worker_pc EXCEPT ![w] = "loop"]
    /\ UNCHANGED <<mainVars, ledgerVars, flagVars, n_created, mining_pc, peerVars,
                   restVars, worker_request>>

\* ProcessRequest, HandlePOST: the handler a request is routed to
Route(request) ==
    IF request.str_method = "POST"
    THEN CASE request.str_path = "/transaction" -> "HandlePostTransaction"
           [] request.str_path = "/files" -> "HandlePostFiles"
           [] request.str_path = "/mine/start" -> "HandlePostMineStart"
           [] request.str_path = "/mine/stop" -> "HandlePostMineStop"
           [] OTHER -> "NotFound"
    ELSE "Other"

\* the response is sent and the connection closed
Worker_Done(w) ==
    /\ worker_pc' = [worker_pc EXCEPT ![w] = "loop"]
    /\ worker_request' = [worker_request EXCEPT ![w] = NoRequest]

\* HandlePostMineStart: StartMining()
Worker_PostMineStart_Enable(w) ==
    /\ worker_pc[w] = "process"
    /\ Route(worker_request[w]) = "HandlePostMineStart"
    /\ StartMining_Enable
    /\ worker_pc' = [worker_pc EXCEPT ![w] = "start_2"]
    /\ UNCHANGED <<mainVars, ledgerVars, n_created, mining_pc, peerVars, restVars,
                   worker_request>>

Worker_PostMineStart_ClearStop(w) ==
    /\ worker_pc[w] = "start_2"
    /\ StartMining_ClearStop
    /\ Worker_Done(w)
    /\ UNCHANGED <<mainVars, ledgerVars, n_created, mining_pc, peerVars, restVars>>

\* HandlePostMineStop: StopMining()
Worker_PostMineStop_SetStop(w) ==
    /\ worker_pc[w] = "process"
    /\ Route(worker_request[w]) = "HandlePostMineStop"
    /\ StopMining_SetStop
    /\ worker_pc' = [worker_pc EXCEPT ![w] = "stop_2"]
    /\ UNCHANGED <<mainVars, ledgerVars, n_created, mining_pc, peerVars, restVars,
                   worker_request>>

Worker_PostMineStop_Disable(w) ==
    /\ worker_pc[w] = "stop_2"
    /\ StopMining_Disable
    /\ Worker_Done(w)
    /\ UNCHANGED <<mainVars, ledgerVars, n_created, mining_pc, peerVars, restVars>>

\* HandlePostTransaction with a well-formed body: the transaction is
\* constructed and added to the pool
Worker_PostTransaction(w) ==
    /\ worker_pc[w] = "process"
    /\ Route(worker_request[w]) = "HandlePostTransaction"
    /\ AddTransaction(CTransaction(n_created + 1, FillerInput[1], FillerInput[2],
                                   FillerInput[3], FillerInput[4]))
    /\ n_created' = n_created + 1
    /\ Worker_Done(w)
    /\ UNCHANGED <<mainVars, flagVars, mining_pc, peerVars, restVars>>

WorkerStep(w) ==
    \/ Worker_Loop(w)
    \/ Worker_Dequeue(w)
    \/ Worker_DequeueFail(w)
    \/ Worker_PostMineStart_Enable(w)
    \/ Worker_PostMineStart_ClearStop(w)
    \/ Worker_PostMineStop_SetStop(w)
    \/ Worker_PostMineStop_Disable(w)
    \/ Worker_PostTransaction(w)

DaemonNext ==
    \/ SignalHandler
    \/ MainStep
    \/ MiningStep
    \/ Mining_PowRetry
    \/ PeerListener_Exit
    \/ PeerThread_Exit
    \/ Listener_Accept
    \/ Listener_Exit
    \/ \E w \in Workers : WorkerStep(w)

DaemonSpec == DaemonInit /\ [][DaemonNext]_vars

\* ---------------------------------------------------------------------------
\* StartSpec: the owner of a constructed server and a constructed peer
\* manager calls their Start(), in any order and more than once; what a
\* call returned is kept in main_pc.  The threads of a started server run.
\* ---------------------------------------------------------------------------
StartInit ==
    /\ LedgerInit
    /\ f_mining_enabled = FALSE
    /\ f_stop_mining = FALSE
    /\ ComponentsConstructed
    /\ main_pc = "s_constructed"
    /\ mining_pc = "none"
    /\ listener_pc = "none"
    /\ peer_listener_pc = "none"
    /\ peer_thread_pc = "none"
    /\ worker_pc = [w \in Workers |-> "none"]

startFrame == <<g_f_shutdown_requested, ledgerVars, flagVars, n_created, mining_pc>>

\* CRestApiServer::Start has no test of f_running; it is called on a server
\* that is not running.
Start_Rest ==
    /\ ~rest_f_running
    /\ CRestApiServer_Start
    /\ main_pc' = "rest_api.Start: true"
    /\ UNCHANGED <<startFrame, peerVars>>

Start_Rest_Fail ==
    /\ ~rest_f_running
    /\ CRestApiServer_Start_Fail
    /\ main_pc' = "rest_api.Start: false"
    /\ UNCHANGED <<startFrame, peerVars>>

Start_Peer ==
    /\ CPeerManager_Start
    /\ main_pc' = "peer_manager.Start: true"
    /\ UNCHANGED <<startFrame, restVars, workerVars>>

Start_Peer_Fail ==
    /\ CPeerManager_Start_Fail
    /\ main_pc' = "peer_manager.Start: false"
    /\ UNCHANGED <<startFrame, restVars, workerVars>>

Start_Peer_Running ==
    /\ CPeerManager_Start_Running
    /\ main_pc' = "peer_manager.Start: true, already running"
    /\ UNCHANGED <<startFrame, restVars, workerVars>>

StartNext ==
    \/ Start_Rest
    \/ Start_Rest_Fail
    \/ Start_Peer
    \/ Start_Peer_Fail
    \/ Start_Peer_Running
    \/ Listener_Accept
    \/ \E w \in Workers : WorkerStep(w)

StartSpec == StartInit /\ [][StartNext]_vars

\* Every thread that can take a step eventually takes one, and the search of
\* Mine() eventually draws an accepted nonce.  Signals and connections come
\* when they come.  shutdown() on the peer manager's listening socket ends
\* its blocked accept; nothing ends the REST listener's blocked accept but a
\* connection, since Stop() only closes the descriptor.
Fairness ==
    /\ WF_vars(MainStep)
    /\ WF_vars(MiningStep)
    /\ WF_vars(PeerListener_Exit)
    /\ WF_vars(PeerThread_Exit)
    /\ \A w \in Workers : WF_vars(WorkerStep(w))

FairDaemonSpec == DaemonSpec /\ Fairness

\* ------------------------------------------- QueueSpec: CRequestQueue alone
\* Workers call Dequeue again and again, a producer calls Enqueue, the owner
\* calls Shutdown once.  Dequeue is taken apart at its lock and its wait:
\*   q_call        before the call
\*   q_pred_false  holds cs_queue, found the predicate false, about to wait
\*   q_waiting     blocked in cv_queue.wait_for, cs_queue released
\*   q_ready       holds cs_queue, wait_for returned true
QueueInit ==
    /\ LedgerInit
    /\ f_mining_enabled = FALSE
    /\ f_stop_mining = FALSE
    /\ ComponentsConstructed
    /\ main_pc = "q_open"
    /\ mining_pc = "none"
    /\ listener_pc = "none"
    /\ peer_listener_pc = "none"
    /\ peer_thread_pc = "none"
    /\ worker_pc = [w \in Workers |-> "q_call"]

\* what no operation of the queue touches
queueFrame == <<ledgerVars, flagVars, n_created, g_f_shutdown_requested, mining_pc,
                peerVars, rest_f_running, rest_f_stop_requested, n_server_socket,
                listener_pc>>

\* the predicate of wait_for: !m_queue.empty() || f_shutdown
WaitPredicate == m_queue # <<>> \/ f_shutdown

\* the test after the wait: f_shutdown && m_queue.empty()
ShutdownAndDrained_NoDrain == f_shutdown
ShutdownAndDrained == f_shutdown /\ m_queue = <<>>

\* threads blocked in wait_for that no notify has reached yet
Waiters == {w \in Workers : worker_pc[w] = "q_waiting" /\ w \notin cv_notified}

\* cv_queue.notify_one()
NotifyOne ==
    IF Waiters = {} THEN UNCHANGED cv_notified
    ELSE \E w \in Waiters : cv_notified' = cv_notified \cup {w}

\* cv_queue.notify_all()
NotifyAll == cv_notified' = cv_notified \cup Waiters

\* m_queue.pop() that removes nothing
Pop_Nothing(queue) == queue
\* m_queue.pop()
Pop(queue) == Tail(queue)

\* Enqueue: lock, push, notify_one
Queue_Enqueue ==
    /\ cs_queue = {}
    /\ n_accepted < MaxRequests
    /\ \E request \in Requests : Enqueue(request)
    /\ n_accepted' = n_accepted + 1
    /\ NotifyOne
    /\ UNCHANGED <<queueFrame, main_pc, handlerVars, f_shutdown, cs_queue, dequeue_result,
                   workerVars>>

\* Shutdown: f_shutdown = true, without the lock
Queue_Shutdown_Set ==
    /\ main_pc = "q_open"
    /\ f_shutdown' = TRUE
    /\ main_pc' = "q_notify"
    /\ UNCHANGED <<queueFrame, n_accepted, handlerVars, m_queue, queueSyncVars, workerVars>>

\* Shutdown: cv_queue.notify_all()
Queue_Shutdown_Notify ==
    /\ main_pc = "q_notify"
    /\ NotifyAll
    /\ main_pc' = "q_shut"
    /\ UNCHANGED <<queueFrame, n_accepted, handlerVars, m_queue, f_shutdown, cs_queue, dequeue_result,
                   workerVars>>

\* Dequeue: lock, first evaluation of the predicate
Dequeue_Enter(w) ==
    /\ worker_pc[w] = "q_call"
    /\ cs_queue = {}
    /\ cs_queue' = {w}
    /\ dequeue_result' = [dequeue_result EXCEPT ![w] = NoResult]
    /\ worker_pc' = [worker_pc EXCEPT ![w] = IF WaitPredicate THEN "q_ready" ELSE "q_pred_false"]
    /\ UNCHANGED <<queueFrame, main_pc, n_accepted, handlerVars, m_queue, f_shutdown, cv_notified,
                   worker_request>>

\* wait_for releases the lock and blocks
Dequeue_Wait(w) ==
    /\ worker_pc[w] = "q_pred_false"
    /\ cs_queue = {w}
    /\ cs_queue' = {}
    /\ worker_pc' = [worker_pc EXCEPT ![w] = "q_waiting"]
    /\ UNCHANGED <<queueFrame, main_pc, n_accepted, handlerVars, m_queue, f_shutdown, cv_notified,
                   dequeue_result, worker_request>>

\* a notify ends the wait: lock, the predicate again
Dequeue_Wake(w) ==
    /\ worker_pc[w] = "q_waiting"
    /\ w \in cv_notified
    /\ cs_queue = {}
    /\ cs_queue' = {w}
    /\ cv_notified' = cv_notified \ {w}
    /\ worker_pc' = [worker_pc EXCEPT ![w] = IF WaitPredicate THEN "q_ready" ELSE "q_pred_false"]
    /\ UNCHANGED <<queueFrame, main_pc, n_accepted, handlerVars, m_queue, f_shutdown, dequeue_result,
                   worker_request>>

\* the timeout ends the wait: lock, wait_for returns the predicate; false
\* makes Dequeue return false
Dequeue_Timeout(w) ==
    /\ worker_pc[w] = "q_waiting"
    /\ cs_queue = {}
    /\ cv_notified' = cv_notified \ {w}
    /\ dequeue_result' = [dequeue_result EXCEPT ![w].f_timeout = TRUE]
    /\ IF WaitPredicate
       THEN /\ cs_queue' = {w}
            /\ worker_pc' = [worker_pc EXCEPT ![w] = "q_ready"]
       ELSE /\ cs_queue' = {}
            /\ worker_pc' = [worker_pc EXCEPT ![w] = "q_call"]
    /\ UNCHANGED <<queueFrame, main_pc, n_accepted, handlerVars, m_queue, f_shutdown, worker_request>>

\* after the wait: false when shut down and drained, else front and pop
Dequeue_Return(w) ==
    /\ worker_pc[w] = "q_ready"
    /\ cs_queue = {w}
    /\ IF ShutdownAndDrained
       THEN /\ dequeue_result' = [dequeue_result EXCEPT ![w].f_shutdown = TRUE]
            /\ UNCHANGED <<m_queue, worker_request>>
       ELSE /\ m_queue # <<>>
            /\ worker_request' = [worker_request EXCEPT ![w] = Head(m_queue)]
            /\ m_queue' = Pop(m_queue)
            /\ dequeue_result' = [dequeue_result EXCEPT ![w].f_ok = TRUE,
                                                         ![w].f_shutdown = f_shutdown]
    /\ cs_queue' = {}
    /\ worker_pc' = [worker_pc EXCEPT ![w] = "q_call"]
    /\ UNCHANGED <<queueFrame, main_pc, n_accepted, handlerVars, f_shutdown, cv_notified>>

DequeueStep(w) ==
    \/ Dequeue_Enter(w)
    \/ Dequeue_Wait(w)
    \/ Dequeue_Wake(w)
    \/ Dequeue_Timeout(w)
    \/ Dequeue_Return(w)

QueueNext ==
    \/ Queue_Enqueue
    \/ Queue_Shutdown_Set
    \/ Queue_Shutdown_Notify
    \/ \E w \in Workers : DequeueStep(w)

QueueSpec == QueueInit /\ [][QueueNext]_vars

\* ---------------------------------------------------------------------------
\* PoolSpec: the listener and the worker threads of a started server around
\* the request queue.  Every accepted connection is a client socket of its
\* own; a worker calls Dequeue, and on true ProcessRequest and close.
\* ---------------------------------------------------------------------------
\* worker_pc is "q_call" .. "q_ready" inside Dequeue as in QueueSpec, and
\* "close" between ProcessRequest and close().
PoolInit == QueueInit

\* accept, recv, ParseHttpRequest(buffer, n_client_socket), Enqueue
Pool_Accept ==
    /\ cs_queue = {}
    /\ n_accepted < MaxRequests
    /\ \E request \in Requests :
          Enqueue([str_method |-> request.str_method, str_path |-> request.str_path,
                   f_before_shutdown |-> TRUE, n_client_socket |-> n_accepted + 1])
    /\ client_sockets' = Append(client_sockets, [n_sent |-> 0, n_closed |-> 0])
    /\ n_accepted' = n_accepted + 1
    /\ NotifyOne
    /\ UNCHANGED <<queueFrame, main_pc, http_request, http_response, m_files, n_handled,
                   f_shutdown, cs_queue, dequeue_result, workerVars>>

\* p_request_queue->Dequeue(request, 100), called when the previous request
\* is done with
Pool_Dequeue(w) ==
    /\ worker_request[w] = NoRequest
    /\ DequeueStep(w)

\* SendHttpResponse(n_client_socket, ...): one send on the socket
SendHttpResponse(n_client_socket) ==
    client_sockets' = [client_sockets EXCEPT ![n_client_socket].n_sent = @ + 1]

\* Dequeue returned true: ProcessRequest(request)
Pool_ProcessRequest(w) ==
    /\ worker_pc[w] = "q_call"
    /\ worker_request[w] # NoRequest
    /\ SendHttpResponse(worker_request[w].n_client_socket)
    /\ worker_pc' = [worker_pc EXCEPT ![w] = "close"]
    /\ UNCHANGED <<queueFrame, main_pc, n_accepted, http_request, http_response, m_files,
                   n_handled, m_queue, f_shutdown, queueSyncVars, worker_request>>

\* close(request.n_client_socket), and the end of the iteration
Pool_Close(w) ==
    /\ worker_pc[w] = "close"
    /\ client_sockets' = [client_sockets EXCEPT ![worker_request[w].n_client_socket].n_closed = @ + 1]
    /\ worker_request' = [worker_request EXCEPT ![w] = NoRequest]
    /\ worker_pc' = [worker_pc EXCEPT ![w] = "q_call"]
    /\ UNCHANGED <<queueFrame, main_pc, n_accepted, http_request, http_response, m_files,
                   n_handled, m_queue, f_shutdown, queueSyncVars>>

PoolNext ==
    \/ Pool_Accept
    \/ \E w \in Workers :
          \/ Pool_Dequeue(w)
          \/ Pool_ProcessRequest(w)
          \/ Pool_Close(w)

PoolSpec == PoolInit /\ [][PoolNext]_vars

\* --------------------------------------------- PeerSpec: CPeerManager alone
\* The owner of a CPeerManager calls Start, AddPeer and Stop, one call at a
\* time; main_pc is where the owner is:
\*   p_idle     constructed, not started
\*   p_running  Start() returned true
\*   p_stop_*   inside Stop() on the running manager
\*   p_stopped  Stop() has returned
PeerInit ==
    /\ LedgerInit
    /\ f_mining_enabled = FALSE
    /\ f_stop_mining = FALSE
    /\ ComponentsConstructed
    /\ main_pc = "p_idle"
    /\ mining_pc = "none"
    /\ listener_pc = "none"
    /\ peer_listener_pc = "none"
    /\ peer_thread_pc = "none"
    /\ worker_pc = [w \in Workers |-> "none"]

\* what no operation of the peer manager touches
peerFrame == <<g_f_shutdown_requested, ledgerVars, flagVars, n_created, mining_pc,
               restVars, workerVars>>

\* the address of the n-th distinct peer
Address(n) == "10.0.0." \o ToString(n)

\* <<str_address, n_port, whether connect() succeeds>> of the n-th AddPeer call
AddPeerInputs(n) ==
    IF n <= RichPeers
    THEN {<<Address(n), P2P_PORT, TRUE>>, <<Address(n), P2P_PORT, FALSE>>,
          <<Address(1), P2P_PORT, TRUE>>}
    ELSE {<<Address(n), P2P_PORT, TRUE>>}

\* the size test of AddPeer
AtMaxPeers_Never == FALSE
AtMaxPeers == Len(m_outbound_peers) >= MAX_OUTBOUND_PEERS

\* the duplicate test of AddPeer
AlreadyConnected(str_address, n_port) ==
    \E i \in 1..Len(m_outbound_peers) :
        /\ m_outbound_peers[i].str_address = str_address
        /\ m_outbound_peers[i].n_port = n_port

\* remove_if with the test on f_connected inverted
CleanupDisconnectedPeers_Connected ==
    m_outbound_peers' = SelectSeq(m_outbound_peers, LAMBDA peer : ~peer.f_connected)

\* the CPeerConnection ConnectToPeer builds, its thread started
CPeerConnection(str_address, n_port) ==
    [str_address |-> str_address, n_port |-> n_port, n_socket |-> "open",
     f_connected |-> TRUE, f_active |-> TRUE, thread_pc |-> "loop"]

\* AddPeer: the size test, the duplicate test, then ConnectToPeer
AddPeer(str_address, n_port, f_connects) ==
    IF AtMaxPeers
    THEN /\ add_peer_result' = "false: maximum reached"
         /\ UNCHANGED m_outbound_peers
    ELSE IF AlreadyConnected(str_address, n_port)
    THEN /\ add_peer_result' = "false: already connected"
         /\ UNCHANGED m_outbound_peers
    ELSE IF ~f_connects
    THEN /\ add_peer_result' = "false: connect failed"
         /\ UNCHANGED m_outbound_peers
    ELSE /\ add_peer_result' = "true"
         /\ m_outbound_peers' = Append(m_outbound_peers, CPeerConnection(str_address, n_port))

Peer_Start ==
    /\ main_pc = "p_idle"
    /\ CPeerManager_Start
    /\ main_pc' = "p_running"
    /\ UNCHANGED peerFrame

Peer_Start_Fail ==
    /\ main_pc = "p_idle"
    /\ CPeerManager_Start_Fail
    /\ UNCHANGED <<main_pc, peerFrame>>

Peer_AddPeer ==
    /\ main_pc \in {"p_idle", "p_running"}
    /\ n_add_peer < MaxAddPeer
    /\ \E in \in AddPeerInputs(n_add_peer + 1) : AddPeer(in[1], in[2], in[3])
    /\ n_add_peer' = n_add_peer + 1
    /\ UNCHANGED <<main_pc, peerFrame, peer_f_running, peer_f_stop_requested,
                   n_listen_socket, peer_listener_pc, peer_thread_pc, callerVars>>

Peer_Stop ==
    /\ main_pc = "p_running"
    /\ CPeerManager_Stop_Flags
    /\ main_pc' = "p_stop_close_peers"
    /\ UNCHANGED peerFrame

Peer_Stop_ClosePeers ==
    /\ main_pc = "p_stop_close_peers"
    /\ CPeerManager_Stop_ClosePeers
    /\ main_pc' = "p_stop_join_listener"
    /\ UNCHANGED peerFrame

Peer_Stop_JoinListener ==
    /\ main_pc = "p_stop_join_listener"
    /\ CPeerManager_Stop_JoinListener
    /\ main_pc' = "p_stop_join_thread"
    /\ UNCHANGED peerFrame

Peer_Stop_JoinThread ==
    /\ main_pc = "p_stop_join_thread"
    /\ CPeerManager_Stop_JoinThread
    /\ main_pc' = "p_stop_join_peers"
    /\ UNCHANGED peerFrame

Peer_Stop_JoinPeers ==
    /\ main_pc = "p_stop_join_peers"
    /\ CPeerManager_Stop_JoinPeers
    /\ main_pc' = "p_stopped"
    /\ UNCHANGED peerFrame

Peer_Stop_NotRunning ==
    /\ main_pc \in {"p_idle", "p_stopped"}
    /\ CPeerManager_Stop_NotRunning
    /\ UNCHANGED <<main_pc, peerFrame>>

\* PeerThread: CleanupDisconnectedPeers erases the peers that are not
\* connected
CleanupDisconnectedPeers ==
    m_outbound_peers' = SelectSeq(m_outbound_peers, LAMBDA peer : peer.f_connected)

PeerThread_Cleanup ==
    /\ peer_thread_pc = "loop"
    /\ ~peer_f_stop_requested
    /\ CleanupDisconnectedPeers
    /\ UNCHANGED <<mainVars, peerFrame, peer_f_running, peer_f_stop_requested,
                   n_listen_socket, peer_listener_pc, peer_thread_pc, n_add_peer,
                   add_peer_result, callerVars>>

\* ConnectionThread leaves its loop: the peer is inactive, or the manager is
\* stopping, or the peer's socket is closed
ConnectionThread_Exit(i) ==
    /\ m_outbound_peers[i].thread_pc = "loop"
    /\ \/ ~m_outbound_peers[i].f_active
       \/ peer_f_stop_requested
       \/ m_outbound_peers[i].n_socket = "closed"
    /\ m_outbound_peers' = [m_outbound_peers EXCEPT ![i].thread_pc = "done"]
    /\ UNCHANGED <<mainVars, peerFrame, peer_f_running, peer_f_stop_requested,
                   n_listen_socket, peer_listener_pc, peer_thread_pc, n_add_peer,
                   add_peer_result, callerVars>>

PeerOwnerStopStep ==
    \/ Peer_Stop_ClosePeers
    \/ Peer_Stop_JoinListener
    \/ Peer_Stop_JoinThread
    \/ Peer_Stop_JoinPeers

PeerNext ==
    \/ Peer_Start
    \/ Peer_Start_Fail
    \/ Peer_AddPeer
    \/ Peer_Stop
    \/ PeerOwnerStopStep
    \/ Peer_Stop_NotRunning
    \/ PeerListener_Exit
    \/ PeerThread_Exit
    \/ PeerThread_Cleanup
    \/ \E i \in 1..Len(m_outbound_peers) : ConnectionThread_Exit(i)

PeerSpec == PeerInit /\ [][PeerNext]_vars

\* A Stop() that has begun goes on, and every thread that can leave its loop
\* eventually does.
PeerFairness ==
    /\ WF_vars(PeerOwnerStopStep)
    /\ WF_vars(PeerListener_Exit)
    /\ WF_vars(PeerThread_Exit)
    /\ \A i \in 1..MAX_OUTBOUND_PEERS :
          WF_vars(i <= Len(m_outbound_peers) /\ ConnectionThread_Exit(i))

FairPeerSpec == PeerSpec /\ PeerFairness

\* ---------------------------------------------------------------------------
\* CleanupSpec: a running manager, its management thread, the connection
\* threads and the connections themselves.  The remote end of a connection
\* may close it at any time; the program's descriptor stays as it is then
\* (n_socket "ended": still >= 0).  DisconnectPeer is a private member that
\* nothing in the repository calls; it is applied here as the operation it
\* is, to whatever peer is registered.
\* ---------------------------------------------------------------------------
MaxCleanupAdd == 4

\* The manager constructed; Start() is the first step.
CleanupInit == PeerInit

cleanupFrame == <<mainVars, peerFrame, peer_f_running, peer_f_stop_requested,
                  n_listen_socket, peer_listener_pc, peer_thread_pc, n_add_peer,
                  add_peer_result, callerVars>>

Cleanup_AddPeer ==
    /\ n_add_peer < MaxCleanupAdd
    /\ Peer_AddPeer

\* The peer at the other end closes the connection, or the link drops.
RemoteClose(peer) == [peer EXCEPT !.n_socket = "ended"]

Connection_RemoteClose(i) ==
    /\ m_outbound_peers[i].n_socket = "open"
    /\ m_outbound_peers' = [m_outbound_peers EXCEPT ![i] = RemoteClose(@)]
    /\ UNCHANGED cleanupFrame

\* DisconnectPeer(p_peer): both flags cleared, the socket shut down, closed
\* and set to -1.
DisconnectPeer(peer) ==
    [peer EXCEPT !.f_active = FALSE, !.f_connected = FALSE, !.n_socket = "closed"]

Call_DisconnectPeer(i) ==
    /\ m_outbound_peers[i].f_connected
    /\ m_outbound_peers' = [m_outbound_peers EXCEPT ![i] = DisconnectPeer(@)]
    /\ UNCHANGED cleanupFrame

CleanupNext ==
    \/ Peer_Start
    \/ Cleanup_AddPeer
    \/ PeerThread_Cleanup
    \/ \E i \in 1..Len(m_outbound_peers) :
          \/ ConnectionThread_Exit(i)
          \/ Connection_RemoteClose(i)
          \/ Call_DisconnectPeer(i)

CleanupSpec == CleanupInit /\ [][CleanupNext]_vars

\* The management thread wakes every 5 seconds, and a connection thread
\* every second.
CleanupFairness ==
    /\ WF_vars(PeerThread_Cleanup)
    /\ \A i \in 1..MAX_OUTBOUND_PEERS :
          WF_vars(i <= Len(m_outbound_peers) /\ ConnectionThread_Exit(i))

FairCleanupSpec == CleanupSpec /\ CleanupFairness

\* ---------------------------------------------------------------------------
\* AddPeer called from several threads at once.  AddPeer holds cs_peers for
\* its two tests and releases it; ConnectToPeer then connects without the lock
\* and takes cs_peers again only for the push_back.
\* ---------------------------------------------------------------------------

AddPeerInit == PeerInit

\* AddPeer, the block under cs_peers: the size test and the duplicate test
AddPeer_Check(c) ==
    /\ add_peer_pc[c] = "idle"
    /\ n_add_peer < MaxAddPeer
    /\ n_add_peer' = n_add_peer + 1
    /\ \E in \in AddPeerInputs(n_add_peer + 1) :
          IF AtMaxPeers
          THEN /\ add_peer_result' = "false: maximum reached"
               /\ UNCHANGED callerVars
          ELSE IF AlreadyConnected(in[1], in[2])
          THEN /\ add_peer_result' = "false: already connected"
               /\ UNCHANGED callerVars
          ELSE /\ add_peer_pc' = [add_peer_pc EXCEPT ![c] = "connect"]
               /\ add_peer_arg' = [add_peer_arg EXCEPT ![c] = in]
               /\ UNCHANGED add_peer_result
    /\ UNCHANGED <<mainVars, peerFrame, peer_f_running, peer_f_stop_requested,
                   n_listen_socket, peer_listener_pc, peer_thread_pc, m_outbound_peers>>

\* ConnectToPeer: socket(), inet_pton(), connect(), outside cs_peers
ConnectToPeer_Connect(c) ==
    /\ add_peer_pc[c] = "connect"
    /\ IF add_peer_arg[c][3]
       THEN /\ add_peer_pc' = [add_peer_pc EXCEPT ![c] = "push_back"]
            /\ UNCHANGED <<add_peer_arg, add_peer_result>>
       ELSE /\ add_peer_pc' = [add_peer_pc EXCEPT ![c] = "idle"]
            /\ add_peer_arg' = [add_peer_arg EXCEPT ![c] = NoPeerArg]
            /\ add_peer_result' = "false: connect failed"
    /\ UNCHANGED <<mainVars, peerFrame, peer_f_running, peer_f_stop_requested,
                   n_listen_socket, peer_listener_pc, peer_thread_pc, m_outbound_peers,
                   n_add_peer>>

\* ConnectToPeer: the connection object, its thread, and the push_back under
\* cs_peers, which tests nothing again
ConnectToPeer_PushBack(c) ==
    /\ add_peer_pc[c] = "push_back"
    /\ m_outbound_peers' = Append(m_outbound_peers,
                                  CPeerConnection(add_peer_arg[c][1], add_peer_arg[c][2]))
    /\ add_peer_pc' = [add_peer_pc EXCEPT ![c] = "idle"]
    /\ add_peer_arg' = [add_peer_arg EXCEPT ![c] = NoPeerArg]
    /\ add_peer_result' = "true"
    /\ UNCHANGED <<mainVars, peerFrame, peer_f_running, peer_f_stop_requested,
                   n_listen_socket, peer_listener_pc, peer_thread_pc, n_add_peer>>

AddPeerNext ==
    \E c \in Callers :
        \/ AddPeer_Check(c)
        \/ ConnectToPeer_Connect(c)
        \/ ConnectToPeer_PushBack(c)

AddPeerSpec == AddPeerInit /\ [][AddPeerNext]_vars

\* ---------------------------------------------------------------------------
\* StopRaceSpec: the owner starts and stops the manager while other threads
\* call AddPeer.  No AddPeer call begins after Stop() has returned; a call
\* that has begun runs on.
\* ---------------------------------------------------------------------------

StopRaceInit == PeerInit

StopRace_AddPeer_Check(c) ==
    /\ main_pc # "p_stopped"
    /\ n_add_peer < MaxRaceAdd
    /\ AddPeer_Check(c)

StopRaceNext ==
    \/ Peer_Start
    \/ Peer_Stop
    \/ PeerOwnerStopStep
    \/ PeerListener_Exit
    \/ PeerThread_Exit
    \/ PeerThread_Cleanup
    \/ \E i \in 1..Len(m_outbound_peers) : ConnectionThread_Exit(i)
    \/ \E c \in Callers :
          \/ StopRace_AddPeer_Check(c)
          \/ ConnectToPeer_Connect(c)
          \/ ConnectToPeer_PushBack(c)

StopRaceSpec == StopRaceInit /\ [][StopRaceNext]_vars

\* ------------------------------------- LockSpec: callers of the ledger lock
\* The threads of the daemon that call CBlockweave while the mining thread
\* runs: each public operation is a lock_guard on cs_blockweave around its
\* body, so it is two steps, the acquisition and the body with the release.
MaxLockedTx == 2

\* The public operations that take the ledger lock, MineBlock apart.
LedgerCalls == {"AddTransaction", "GetBlock", "GetData", "PrintChain", "GetMempoolSize"}

\* main() after weave.StartMining() and the start of mining_thread.
LockInit ==
    /\ LedgerInit
    /\ f_mining_enabled = TRUE
    /\ f_stop_mining = FALSE
    /\ ComponentsConstructed
    /\ main_pc = "running"
    /\ mining_pc = "while"
    /\ listener_pc = "none"
    /\ peer_listener_pc = "none"
    /\ peer_thread_pc = "none"
    /\ worker_pc = [w \in Workers |-> "call"]

\* std::lock_guard<std::mutex> lock(cs_blockweave) without the lock: the
\* operation runs its body whoever holds the mutex.
LockGuard_NotTaken(op) == UNCHANGED cs_blockweave

\* std::lock_guard<std::mutex> lock(cs_blockweave): blocks until the mutex
\* is free, then holds it.
LockGuard(op) == cs_blockweave = "free" /\ cs_blockweave' = op

\* The end of the operation's scope: ~lock_guard.
LockGuard_Release == cs_blockweave' = "free"

lockFrame == <<mainVars, mining_pc, peerVars, restVars, worker_request>>

\* A thread enters one of the locking operations.
Call_Lock(w) ==
    /\ worker_pc[w] = "call"
    /\ \E op \in LedgerCalls :
        /\ op = "AddTransaction" => n_created < MaxLockedTx
        /\ LockGuard(op)
        /\ worker_pc' = [worker_pc EXCEPT ![w] = op]
    /\ UNCHANGED <<map_blocks, m_block_hashes, m_genesis_block, m_current_block,
                   m_mempool, new_block, submitted, observed>>
    /\ UNCHANGED <<flagVars, n_created, lockFrame>>

\* AddTransaction: m_mempool.push_back(tx), return true.
Call_AddTransaction(w) ==
    /\ worker_pc[w] = "AddTransaction"
    /\ \E in \in TxInputsFor(n_created + 1) :
        LET tx == CTransaction(n_created + 1, in[1], in[2], in[3], in[4])
        IN /\ m_mempool' = Append(m_mempool, tx)
           /\ submitted' = Append(submitted, tx)
    /\ n_created' = n_created + 1
    /\ LockGuard_Release
    /\ worker_pc' = [worker_pc EXCEPT ![w] = "call"]
    /\ UNCHANGED <<map_blocks, m_block_hashes, m_genesis_block, m_current_block,
                   new_block, observed>>
    /\ UNCHANGED <<flagVars, lockFrame>>

\* The body of a read: what it returns is observed, nothing is changed.
Call_Returns(w, result) ==
    /\ observed' = result
    /\ LockGuard_Release
    /\ worker_pc' = [worker_pc EXCEPT ![w] = "call"]
    /\ UNCHANGED <<map_blocks, m_block_hashes, m_genesis_block, m_current_block,
                   m_mempool, new_block, submitted>>
    /\ UNCHANGED <<flagVars, n_created, lockFrame>>

\* GetBlock(hash): map_blocks.find(hash), the block or nullptr.
GetBlock(hash) == IF hash \in DOMAIN map_blocks THEN map_blocks[hash] ELSE NoBlock

Call_GetBlock(w) ==
    /\ worker_pc[w] = "GetBlock"
    /\ \E hash \in DOMAIN map_blocks \cup {ZeroHash} :
          Call_Returns(w, <<"GetBlock", hash, GetBlock(hash).m_n_height>>)

\* The identifiers a caller asks for: those constructed, and one never used.
LockedTxIds == {CTransaction(n, FillerInput[1], FillerInput[2], FillerInput[3],
                             FillerInput[4]).m_id : n \in 1..(MaxLockedTx + 1)}

Call_GetData(w) ==
    /\ worker_pc[w] = "GetData"
    /\ \E tx_id \in {submitted[i].m_id : i \in 1..Len(submitted)} \cup LockedTxIds :
          Call_Returns(w, <<"GetData", tx_id, GetData(tx_id)>>)

Call_GetMempoolSize(w) ==
    /\ worker_pc[w] = "GetMempoolSize"
    /\ Call_Returns(w, <<"GetMempoolSize", GetMempoolSize>>)

\* PrintChain: the sum of m_n_cumulative_data_size over map_blocks.
RECURSIVE TotalData(_)
TotalData(hashes) ==
    IF hashes = {} THEN 0
    ELSE LET h == CHOOSE x \in hashes : TRUE
         IN  map_blocks[h].m_n_cumulative_data_size + TotalData(hashes \ {h})

\* PrintChain: the four figures it logs.
PrintChain ==
    <<"PrintChain", Cardinality(DOMAIN map_blocks), m_current_block.m_n_height,
      Len(m_mempool), TotalData(DOMAIN map_blocks)>>

Call_PrintChain(w) ==
    /\ worker_pc[w] = "PrintChain"
    /\ Call_Returns(w, PrintChain)

\* StartMining() and StopMining(): two atomic stores each, no lock.
Call_StartMining_Enable(w) ==
    /\ worker_pc[w] = "call"
    /\ StartMining_Enable
    /\ worker_pc' = [worker_pc EXCEPT ![w] = "start_2"]
    /\ UNCHANGED <<ledgerVars, n_created, lockFrame>>

Call_StartMining_ClearStop(w) ==
    /\ worker_pc[w] = "start_2"
    /\ StartMining_ClearStop
    /\ worker_pc' = [worker_pc EXCEPT ![w] = "call"]
    /\ UNCHANGED <<ledgerVars, n_created, lockFrame>>

Call_StopMining_SetStop(w) ==
    /\ worker_pc[w] = "call"
    /\ StopMining_SetStop
    /\ worker_pc' = [worker_pc EXCEPT ![w] = "stop_2"]
    /\ UNCHANGED <<ledgerVars, n_created, lockFrame>>

Call_StopMining_Disable(w) ==
    /\ worker_pc[w] = "stop_2"
    /\ StopMining_Disable
    /\ worker_pc' = [worker_pc EXCEPT ![w] = "call"]
    /\ UNCHANGED <<ledgerVars, n_created, lockFrame>>

\* IsMiningEnabled() and ShouldStopMining(): one atomic load, no lock.
Call_ReadFlags(w) ==
    /\ worker_pc[w] = "call"
    /\ observed' = <<"flags", IsMiningEnabled, ShouldStopMining>>
    /\ UNCHANGED <<map_blocks, m_block_hashes, m_genesis_block, m_current_block,
                   m_mempool, cs_blockweave, new_block, submitted>>
    /\ UNCHANGED <<flagVars, n_created, lockFrame, worker_pc>>

CallStep(w) ==
    \/ Call_Lock(w)
    \/ Call_AddTransaction(w)
    \/ Call_GetBlock(w)
    \/ Call_GetData(w)
    \/ Call_GetMempoolSize(w)
    \/ Call_PrintChain(w)
    \/ Call_StartMining_Enable(w)
    \/ Call_StartMining_ClearStop(w)
    \/ Call_StopMining_SetStop(w)
    \/ Call_StopMining_Disable(w)
    \/ Call_ReadFlags(w)

LockNext ==
    \/ MiningStep
    \/ \E w \in Workers : CallStep(w)

LockSpec == LockInit /\ [][LockNext]_vars

\* ---------------------------------------------------------------------------
\* CRestApiServer::ProcessRequest and the handlers, one request at a time, on
\* the text of the request: a std::string is a TLA+ string, positions count
\* from 1, and 0 stands for std::string::npos.
\* ---------------------------------------------------------------------------

Least(S) == CHOOSE x \in S : \A y \in S : x <= y

Greatest(S) == CHOOSE x \in S : \A y \in S : x >= y

\* str[n], the terminating NUL included
CharAt(str, n) == IF n >= 1 /\ n <= Len(str) THEN SubSeq(str, n, n) ELSE ""

\* str.find(str_pattern, n_pos)
Find(str, str_pattern, n_pos) ==
    LET hits == {n \in n_pos..(Len(str) - Len(str_pattern) + 1) :
                    SubSeq(str, n, n + Len(str_pattern) - 1) = str_pattern}
    IN  IF hits = {} THEN 0 ELSE Least(hits)

\* str.substr(0, n_count)
Substr0(str, n_count) == SubSeq(str, 1, Min(n_count, Len(str)))

\* std::isspace in the "C" locale
IsSpace(c) == c \in {" ", "\t", "\n", "\r", "\f"}

\* the first position from n_pos on that holds no whitespace
SkipSpace(str, n_pos) ==
    Least({n \in n_pos..(Len(str) + 1) : ~IsSpace(CharAt(str, n))} \cup {Len(str) + 1})

\* str_value.find_last_not_of(" \t\r\n")
FindLastNotOf(str) ==
    LET hits == {n \in 1..Len(str) : CharAt(str, n) \notin {" ", "\t", "\r", "\n"}}
    IN  IF hits = {} THEN 0 ELSE Greatest(hits)

\* ExtractJsonValue: the text after the first occurrence of the quoted key
\* and the next colon, up to the closing quote of a string or to the next
\* comma, brace or newline of anything else
ExtractJsonValue(str_json, str_key) ==
    LET n_key_pos == Find(str_json, "\"" \o str_key \o "\"", 1)
        n_colon_pos == Find(str_json, ":", n_key_pos)
        n_value_start == SkipSpace(str_json, n_colon_pos + 1)
        n_string_end == Find(str_json, "\"", n_value_start + 1)
        n_value_end ==
            Least({n \in n_value_start..Len(str_json) :
                      CharAt(str_json, n) \in {",", "}", "\n"}} \cup {Len(str_json) + 1})
        str_value == SubSeq(str_json, n_value_start, n_value_end - 1)
        n_end == FindLastNotOf(str_value)
    IN  IF n_key_pos = 0 THEN ""
        ELSE IF n_colon_pos = 0 THEN ""
        ELSE IF CharAt(str_json, n_value_start) = "\""
        THEN IF n_string_end # 0
             THEN SubSeq(str_json, n_value_start + 1, n_string_end - 1)
             ELSE ""
        ELSE IF n_end # 0 THEN SubSeq(str_value, 1, n_end) ELSE str_value

base64_chars == "ABCDEFGHIJKLMNOPQRSTUVWXYZabcdefghijklmnopqrstuvwxyz0123456789+/"

\* IsBase64: std::isalnum, '+' or '/'
IsBase64(c) == c # "" /\ Find(base64_chars, c, 1) # 0

\* base64_chars.find(c)
Base64Index(c) == Find(base64_chars, c, 1) - 1

\* the leading characters DecodeBase64 consumes: it stops at the first '='
\* and at the first character that is not of the alphabet
Base64Prefix(str_encoded) ==
    LET stops == {n \in 1..Len(str_encoded) : ~IsBase64(CharAt(str_encoded, n))}
    IN  IF stops = {} THEN str_encoded ELSE SubSeq(str_encoded, 1, Least(stops) - 1)

\* char_array_3 of a group of four 6-bit values
Base64Bytes(c) ==
    << (c[1] * 4 + ((c[2] \div 16) % 4)) % 256,
       ((c[2] % 16) * 16 + ((c[3] \div 4) % 16)) % 256,
       ((c[3] % 4) * 64 + c[4]) % 256 >>

\* DecodeBase64 on the consumed characters: three bytes for every four of
\* them, and n_i - 1 bytes for the n_i that are left over
RECURSIVE DecodeGroups(_)
DecodeGroups(str) ==
    IF Len(str) = 0 THEN <<>>
    ELSE IF Len(str) >= 4
    THEN Base64Bytes([n \in 1..4 |-> Base64Index(CharAt(str, n))])
             \o DecodeGroups(SubSeq(str, 5, Len(str)))
    ELSE SubSeq(Base64Bytes([n \in 1..4 |->
                    IF n <= Len(str) THEN Base64Index(CharAt(str, n)) ELSE 255]),
                1, Len(str) - 1)

DecodeBase64(str_encoded) == DecodeGroups(Base64Prefix(str_encoded))

\* the value of a string of decimal digits
RECURSIVE DigitsValue(_)
DigitsValue(str) ==
    IF Len(str) = 0 THEN 0
    ELSE DigitsValue(SubSeq(str, 1, Len(str) - 1)) * 10
             + (Find("0123456789", CharAt(str, Len(str)), 1) - 1)

IsDigit(c) == c # "" /\ Find("0123456789", c, 1) # 0

\* the digits str holds from n_pos on
DigitsAt(str, n_pos) ==
    LET stops == {n \in n_pos..Len(str) : ~IsDigit(CharAt(str, n))}
    IN  IF stops = {} THEN SubSeq(str, n_pos, Len(str))
        ELSE SubSeq(str, n_pos, Least(stops) - 1)

\* the decimals whose product with 1000000 in IEEE-754 double arithmetic lies
\* below the exact product: stod("0.000249") * 1000000 = 248.99999999999997
FeeProductBelowExact == {"0.000249"}

\* static_cast<uint64_t>(std::stod(str_fee) * 1000000) of an unsigned decimal:
\* stod reads the longest decimal prefix and throws when there is none; the
\* cast truncates the product
StodTimesMillion(str_fee) ==
    LET str_int == DigitsAt(str_fee, 1)
        f_point == CharAt(str_fee, Len(str_int) + 1) = "."
        str_frac == IF f_point THEN DigitsAt(str_fee, Len(str_int) + 2) ELSE ""
        str_micro == Substr0(str_frac \o "000000", 6)
    IN  IF Len(str_int) = 0 /\ Len(str_frac) = 0
        THEN [f_throws |-> TRUE, n_fee |-> 0]
        ELSE [f_throws |-> FALSE,
              n_fee |-> DigitsValue(str_int) * 1000000 + DigitsValue(str_micro)
                            - (IF str_fee \in FeeProductBelowExact THEN 1 ELSE 0)]

\* the characters of ASCII from the space (32) to the underscore (95), and
\* the lower-case letters (97) to the tilde (126)
AsciiUpper == " !\"#$%&'()*+,-./0123456789:;<=>?@ABCDEFGHIJKLMNOPQRSTUVWXYZ[\\]^_"
AsciiLower == "abcdefghijklmnopqrstuvwxyz{|}~"

\* static_cast<uint8_t>(c)
ToByte(c) ==
    CASE c = "\t" -> 9
      [] c = "\n" -> 10
      [] c = "\r" -> 13
      [] Find(AsciiUpper, c, 1) # 0 -> 31 + Find(AsciiUpper, c, 1)
      [] OTHER -> 96 + Find(AsciiLower, c, 1)

\* the bytes of a string, as HandlePostFiles and ParseMultipartFile push them
Bytes(str) == [n \in 1..Len(str) |-> ToByte(CharAt(str, n))]

\* ParseMultipartFile: the filename and the text between the blank line after
\* Content-Disposition and the next boundary, every trailing CR and LF removed
ParseMultipartFile(str_body, str_boundary) ==
    LET str_start_boundary == "--" \o str_boundary
        n_found == Find(str_body, str_start_boundary, 1)
        n_start == n_found + Len(str_start_boundary)
        n_disposition == Find(str_body, "Content-Disposition:", n_start)
        n_filename_found == Find(str_body, "filename=\"", n_disposition)
        n_filename_start == n_filename_found + 10
        n_filename_end == Find(str_body, "\"", n_filename_start)
        str_filename ==
            IF n_filename_found # 0 /\ n_filename_end # 0
            THEN SubSeq(str_body, n_filename_start, n_filename_end - 1)
            ELSE ""
        n_crlf == Find(str_body, "\r\n\r\n", n_disposition)
        n_lf == Find(str_body, "\n\n", n_disposition)
        n_data_start == IF n_crlf # 0 THEN n_crlf + 4 ELSE n_lf + 2
        n_boundary == Find(str_body, str_start_boundary, n_data_start)
        n_data_end ==
            Least({n \in n_data_start..n_boundary :
                      \A k \in n..(n_boundary - 1) : CharAt(str_body, k) \in {"\n", "\r"}})
        file_data == Bytes(SubSeq(str_body, n_data_start, n_data_end - 1))
        failed == [f_ok |-> FALSE, str_filename |-> "", file_data |-> <<>>]
    IN  IF n_found = 0 THEN failed
        ELSE IF n_disposition = 0 THEN failed
        ELSE IF n_crlf = 0 /\ n_lf = 0 THEN failed
        ELSE IF n_boundary = 0 THEN failed
        ELSE [f_ok |-> file_data # <<>>, str_filename |-> str_filename,
              file_data |-> file_data]

\* CTransaction as the handlers construct it: with its reward
CTransactionWithReward(ptr, str_owner, str_target, n_timestamp, data, n_reward) ==
    [ ptr           |-> ptr,
      m_id          |-> CHash(str_owner \o str_target \o ToString(n_timestamp)),
      m_str_owner   |-> str_owner,
      m_str_target  |-> str_target,
      m_data        |-> data,
      m_n_data_size |-> Len(data),
      m_n_reward    |-> n_reward ]

\* what a handler returns and does: the response body, the transaction it
\* constructs and adds to the pool (none or one, as the constructor's
\* arguments), the file it writes (none or one), and the mining switch
Reply(str_response) ==
    [str_response |-> str_response, txs |-> <<>>, files |-> <<>>, mining |-> "same"]

\* m_id.m_str_data.substr(0, 32): hexadecimal digits of a digest
HexId32 == "0123456789abcdef0123456789abcdef"

\* the miner address and the data directory the configuration resolves to
str_miner_address == "miner"
str_data_dir == "./data"

HandleGetChain ==
    Reply("{\n  \"mempool_size\": " \o ToString(GetMempoolSize) \o ",\n  \"mining_enabled\": "
              \o (IF IsMiningEnabled THEN "true" ELSE "false") \o "\n}")

HandleGetBlock == Reply("{\"error\": \"Not implemented\"}")

HandleGetData == Reply("{\"error\": \"Not implemented\"}")

HandlePostTransaction(str_body) ==
    LET str_from == ExtractJsonValue(str_body, "from")
        str_to == ExtractJsonValue(str_body, "to")
        str_data_b64 == ExtractJsonValue(str_body, "data")
        str_fee == ExtractJsonValue(str_body, "fee")
        data == DecodeBase64(str_data_b64)
        fee == IF str_fee = "" THEN [f_throws |-> FALSE, n_fee |-> 0]
               ELSE StodTimesMillion(str_fee)
    IN  IF str_from = "" \/ str_to = "" \/ str_data_b64 = ""
        THEN Reply("{\"error\": \"Missing required fields: from, to, data\"}")
        ELSE IF data = <<>>
        THEN Reply("{\"error\": \"Invalid base64 data\"}")
        ELSE IF fee.f_throws
        THEN Reply("{\"error\": \"Invalid fee value\"}")
        ELSE [str_response |->
                  "{\n  \"status\": \"success\",\n  \"transaction_id\": \"" \o HexId32
                      \o "...\",\n  \"from\": \"" \o Substr0(str_from, 16)
                      \o "...\",\n  \"to\": \"" \o Substr0(str_to, 16)
                      \o "...\",\n  \"data_size\": " \o ToString(Len(data))
                      \o ",\n  \"fee\": " \o ToString(fee.n_fee) \o "\n}",
              txs |-> << [str_owner |-> str_from, str_target |-> str_to, data |-> data,
                          n_reward |-> fee.n_fee] >>,
              files |-> <<>>,
              mining |-> "same"]

\* what the file system does to HandlePostFiles
DiskOutcomes == {"ok", "mkdir fails", "open fails", "write fails"}

\* the identifiers GenerateUUID can return
Uuids == {"uuid-1", "uuid-2"}

\* the boundary parameter of a multipart Content-Type, quotes removed
Boundary(str_content_type) ==
    LET str_raw == SubSeq(str_content_type, Find(str_content_type, "boundary=", 1) + 9,
                          Len(str_content_type))
        str_front == IF CharAt(str_raw, 1) = "\"" THEN SubSeq(str_raw, 2, Len(str_raw))
                     ELSE str_raw
    IN  IF CharAt(str_front, Len(str_front)) = "\""
        THEN SubSeq(str_front, 1, Len(str_front) - 1)
        ELSE str_front

\* HandlePostFiles once it holds the file's bytes: the data directory, the
\* file, and only then the transaction
SaveAndSubmit(str_filename, file_data, str_uuid, disk) ==
    LET str_file_path == str_data_dir \o "/" \o str_uuid IN
    IF file_data = <<>>
    THEN Reply("{\"error\": \"Empty file data\"}")
    ELSE IF disk = "mkdir fails"
    THEN Reply("{\"error\": \"Failed to create data directory\"}")
    ELSE IF disk = "open fails"
    THEN Reply("{\"error\": \"Failed to save file\"}")
    ELSE IF disk = "write fails"
    THEN [Reply("{\"error\": \"Failed to write file\"}") EXCEPT
              !.files = << [str_path |-> str_file_path, bytes |-> <<>>] >>]
    ELSE [str_response |->
              "{\n  \"status\": \"success\",\n  \"transaction_id\": \"" \o HexId32
                  \o "...\",\n  \"uuid\": \"" \o str_uuid
                  \o "\",\n  \"original_filename\": \"" \o str_filename
                  \o "\",\n  \"saved_path\": \"" \o str_file_path
                  \o "\",\n  \"size\": " \o ToString(Len(file_data))
                  \o ",\n  \"message\": \"File uploaded and saved to disk\"\n}",
          txs |-> << [str_owner |-> str_miner_address, str_target |-> "file_storage",
                      data |-> file_data, n_reward |-> 0] >>,
          files |-> << [str_path |-> str_file_path, bytes |-> file_data] >>,
          mining |-> "same"]

HandlePostFiles(request, str_uuid, disk) ==
    IF Find(request.str_content_type, "multipart/form-data", 1) # 0
    THEN IF Find(request.str_content_type, "boundary=", 1) = 0
         THEN Reply("{\"error\": \"Missing boundary in Content-Type\"}")
         ELSE LET parsed == ParseMultipartFile(request.str_body,
                                               Boundary(request.str_content_type))
              IN  IF ~parsed.f_ok
                  THEN Reply("{\"error\": \"Failed to parse multipart data\"}")
                  ELSE SaveAndSubmit(IF parsed.str_filename = "" THEN "uploaded_file"
                                     ELSE parsed.str_filename,
                                     parsed.file_data, str_uuid, disk)
    ELSE SaveAndSubmit("raw_upload", Bytes(request.str_body), str_uuid, disk)

HandlePostMineStart == [Reply("{\"status\": \"Mining started\"}") EXCEPT !.mining = "start"]

HandlePostMineStop == [Reply("{\"status\": \"Mining stopped\"}") EXCEPT !.mining = "stop"]

HandleGET(str_endpoint) ==
    IF str_endpoint = "/chain" THEN HandleGetChain
    ELSE IF Find(str_endpoint, "/block/", 1) = 1 THEN HandleGetBlock
    ELSE IF Find(str_endpoint, "/data/", 1) = 1 THEN HandleGetData
    ELSE Reply("{\"error\": \"Not found\"}")

HandlePOST(str_endpoint, request, str_uuid, disk) ==
    IF str_endpoint = "/transaction" THEN HandlePostTransaction(request.str_body)
    ELSE IF str_endpoint = "/files" THEN HandlePostFiles(request, str_uuid, disk)
    ELSE IF str_endpoint = "/mine/start" THEN HandlePostMineStart
    ELSE IF str_endpoint = "/mine/stop" THEN HandlePostMineStop
    ELSE Reply("{\"error\": \"Not found\"}")

\* ProcessRequest: the status is 404 when the body holds both "error" in
\* quotes and Not found
NotFoundStatus(str_response) ==
    IF Find(str_response, "\"error\"", 1) # 0 /\ Find(str_response, "Not found", 1) # 0
    THEN 404 ELSE 200

\* the handler's result and the status ProcessRequest sends with it
Handled(request, str_uuid, disk) ==
    IF request.str_method = "GET"
    THEN LET result == HandleGET(request.str_path)
         IN  [result |-> result, n_status_code |-> NotFoundStatus(result.str_response)]
    ELSE IF request.str_method = "POST"
    THEN LET result == HandlePOST(request.str_path, request, str_uuid, disk)
         IN  [result |-> result, n_status_code |-> NotFoundStatus(result.str_response)]
    ELSE [result |-> Reply("{\"error\": \"Method not allowed\"}"), n_status_code |-> 405]

\* std::ofstream on a path: a new file, or the file of that path truncated
\* and rewritten
WriteFile(file) ==
    IF \E n \in 1..Len(m_files) : m_files[n].str_path = file.str_path
    THEN [n \in 1..Len(m_files) |->
             IF m_files[n].str_path = file.str_path THEN file ELSE m_files[n]]
    ELSE Append(m_files, file)

\* The requests served.  sent records what the client put into the request:
\* for /transaction the <<key, value as written in the JSON>> pairs, for
\* /files the text of the uploaded file.
RECURSIVE JsonMembers(_)
JsonMembers(fields) ==
    IF fields = <<>> THEN ""
    ELSE "\"" \o fields[1][1] \o "\": " \o fields[1][2]
             \o (IF Len(fields) > 1 THEN ", " ELSE "") \o JsonMembers(Tail(fields))

TransactionRequest(fields) ==
    [str_method |-> "POST", str_path |-> "/transaction",
     str_content_type |-> "application/json",
     str_body |-> "{" \o JsonMembers(fields) \o "}", sent |-> fields]

MultipartRequest(str_content_type, str_file) ==
    [str_method |-> "POST", str_path |-> "/files", str_content_type |-> str_content_type,
     str_body |-> "--B\r\nContent-Disposition: form-data; name=\"file\"; filename=\"a.txt\"\r\n"
                      \o "Content-Type: text/plain\r\n\r\n" \o str_file \o "\r\n--B--\r\n",
     sent |-> str_file]

RawFileRequest(str_file) ==
    [str_method |-> "POST", str_path |-> "/files",
     str_content_type |-> "application/octet-stream", str_body |-> str_file,
     sent |-> str_file]

PlainRequest(str_method, str_path) ==
    [str_method |-> str_method, str_path |-> str_path, str_content_type |-> "",
     str_body |-> "", sent |-> <<>>]

From_A == <<"from", "\"A\"">>
To_B == <<"to", "\"B\"">>
Data_hi == <<"data", "\"aGk=\"">>
Fee_001 == <<"fee", "\"0.01\"">>

TransactionRequests ==
    { TransactionRequest(<<From_A, To_B, Data_hi, Fee_001>>),
      TransactionRequest(<<From_A, To_B, Data_hi>>),
      TransactionRequest(<<From_A, Data_hi, Fee_001>>),
      TransactionRequest(<<To_B, Data_hi, Fee_001>>),
      TransactionRequest(<<From_A, To_B, Fee_001>>),
      TransactionRequest(<<From_A, To_B, <<"data", "\"!!!!\"">>, Fee_001>>),
      TransactionRequest(<<From_A, To_B, <<"data", "\"aGk!\"">>, Fee_001>>),
      TransactionRequest(<<From_A, To_B, <<"data", "\"aGVsbG8=\"">>, <<"fee", "2">> >>),
      TransactionRequest(<<From_A, To_B, Data_hi, <<"fee", "\"abc\"">> >>),
      TransactionRequest(<<From_A, To_B, Data_hi, <<"fee", "\"0.000249\"">> >>),
      TransactionRequest(<< <<"from", "x\"error\"">>, <<"to", "Not found">>, Data_hi,
                            Fee_001 >>) }

FileRequests ==
    { MultipartRequest("multipart/form-data; boundary=B", "hello"),
      MultipartRequest("multipart/form-data; boundary=\"B\"", "hello"),
      MultipartRequest("multipart/form-data; boundary=B", "hi\n"),
      MultipartRequest("multipart/form-data; boundary=B", ""),
      MultipartRequest("multipart/form-data; boundary=X", "hello"),
      MultipartRequest("multipart/form-data", "hello"),
      RawFileRequest("hello"),
      RawFileRequest("hi\n"),
      RawFileRequest("") }

OtherRequests ==
    { PlainRequest("GET", "/chain"), PlainRequest("GET", "/block/00ab"),
      PlainRequest("GET", "/data/00ab"), PlainRequest("GET", "/nope"),
      PlainRequest("POST", "/nope"), PlainRequest("POST", "/chain"),
      PlainRequest("POST", "/mine/start"), PlainRequest("POST", "/mine/stop"),
      PlainRequest("PUT", "/chain"), PlainRequest("DELETE", "/nope") }

HttpRequests == TransactionRequests \cup FileRequests \cup OtherRequests

HandlerInit ==
    /\ LedgerInit
    /\ f_mining_enabled = FALSE
    /\ f_stop_mining = FALSE
    /\ ComponentsConstructed
    /\ main_pc = "serving"
    /\ mining_pc = "none"
    /\ listener_pc = "none"
    /\ peer_listener_pc = "none"
    /\ peer_thread_pc = "none"
    /\ worker_pc = [w \in Workers |-> "none"]

\* ProcessRequest on one request, by a worker that has the server to itself:
\* the handler, its transaction and its file, the status, SendHttpResponse.
\* The clock has moved on since the request before.
ProcessRequest(request, str_uuid, disk) ==
    \E handled \in {Handled(request, str_uuid, disk)} :
    LET result == handled.result
    IN  /\ n_handled < MaxHandled
        /\ n_handled' = n_handled + 1
        /\ http_request' = request
        /\ http_response' = [n_status_code |-> handled.n_status_code,
                             str_body |-> result.str_response]
        /\ IF result.txs # <<>>
           THEN /\ AddTransaction(CTransactionWithReward(n_created + 1,
                        result.txs[1].str_owner, result.txs[1].str_target, n_handled + 1,
                        result.txs[1].data, result.txs[1].n_reward))
                /\ n_created' = n_created + 1
           ELSE UNCHANGED <<ledgerVars, n_created>>
        /\ m_files' = IF result.files # <<>> THEN WriteFile(result.files[1]) ELSE m_files
        /\ CASE result.mining = "start" -> f_mining_enabled' = TRUE /\ f_stop_mining' = FALSE
             [] result.mining = "stop" -> f_stop_mining' = TRUE /\ f_mining_enabled' = FALSE
             [] OTHER -> UNCHANGED flagVars
        /\ UNCHANGED <<mainVars, mining_pc, peerVars, rest_f_running, rest_f_stop_requested,
                       n_server_socket, listener_pc, n_accepted, m_queue, f_shutdown,
                       queueSyncVars, workerVars, client_sockets>>

Serve_Transaction ==
    \E request \in TransactionRequests : ProcessRequest(request, "uuid-1", "ok")

Serve_Files ==
    \E request \in FileRequests, str_uuid \in Uuids : ProcessRequest(request, str_uuid, "ok")

Serve_Files_DiskFails ==
    \E disk \in DiskOutcomes \ {"ok"} : ProcessRequest(RawFileRequest("hello"), "uuid-1", disk)

Serve_Other ==
    \E request \in OtherRequests : ProcessRequest(request, "uuid-1", "ok")

HandlerNext ==
    \/ Serve_Transaction
    \/ Serve_Files
    \/ Serve_Files_DiskFails
    \/ Serve_Other

HandlerSpec == HandlerInit /\ [][HandlerNext]_vars

\* ------------------------------------------------------------------ claims
Range(seq) == {seq[i] : i \in 1..Len(seq)}

\* the transactions held by the blocks stored in the map
MinedTxs == UNION {Range(map_blocks[h].m_transactions) : h \in DOMAIN map_blocks}

\* the transaction lists of the stored blocks, concatenated in append order
RECURSIVE ChainTxsFrom(_)
ChainTxsFrom(n_b) ==
    IF n_b > Len(m_block_hashes) THEN <<>>
    ELSE map_blocks[m_block_hashes[n_b]].m_transactions \o ChainTxsFrom(n_b + 1)

RECURSIVE SumSizes(_)
SumSizes(txs) == IF txs = <<>> THEN 0 ELSE Len(Head(txs).m_data) + SumSizes(Tail(txs))

RECURSIVE SumCumulativeFrom(_)
SumCumulativeFrom(n_b) ==
    IF n_b > Len(m_block_hashes) THEN 0
    ELSE map_blocks[m_block_hashes[n_b]].m_n_cumulative_data_size + SumCumulativeFrom(n_b + 1)

\* the ids a caller may ask GetData for
IdOf(in) == CHash(in[1] \o in[2] \o ToString(in[3]))
AllIds == {IdOf(in) : in \in TxInputs \cup {FillerInput}} \cup {CHash("unknown")}

\* C1: no transaction is at once an entry of the pool and a member of the
\* transaction list of a block stored in the ledger.
C1_PoolDisjointFromBlocks ==
    \A i \in 1..Len(m_mempool) : m_mempool[i] \notin MinedTxs

\* a block of ten transactions is stored while later ones are still pending
C1_Witness ==
    /\ Len(m_block_hashes) = 2
    /\ Len(m_current_block.m_transactions) = 10
    /\ Len(m_mempool) = 1

\* C2: a MineBlock call puts at most 10 transactions into its block, the
\* pool shrinks by exactly that many when the call takes them and by nothing
\* else until the block is stored; no other step shrinks the pool or adds a
\* block.
C2_TakeStep ==
    (new_block = NoBlock /\ new_block' # NoBlock) =>
        /\ Len(new_block'.m_transactions) <= 10
        /\ Len(m_mempool) - Len(m_mempool') = Len(new_block'.m_transactions)
C2_SearchStep ==
    (new_block # NoBlock) =>
        /\ m_mempool' = m_mempool
        /\ new_block' # NoBlock =>
              /\ new_block'.m_transactions = new_block.m_transactions
              /\ m_block_hashes' = m_block_hashes
        /\ new_block' = NoBlock =>
              /\ Len(m_block_hashes') = Len(m_block_hashes) + 1
              /\ m_current_block'.m_transactions = new_block.m_transactions
C2_OtherStep ==
    (new_block = NoBlock /\ new_block' = NoBlock) =>
        /\ Len(m_mempool') >= Len(m_mempool)
        /\ m_block_hashes' = m_block_hashes
C2_MineBlockCount == [][C2_TakeStep /\ C2_SearchStep /\ C2_OtherStep]_vars

\* a call took the full ten and left the rest
C2_Witness ==
    /\ new_block # NoBlock
    /\ Len(new_block.m_transactions) = 10
    /\ m_mempool # <<>>

\* C3: the transaction lists of the blocks in append order, then the block a
\* running MineBlock call holds under the lock, then the pool, are the
\* transactions in the order AddTransaction appended them.
C3_OldestFirst ==
    /\ cs_blockweave = "free" => ChainTxsFrom(1) \o m_mempool = submitted
    /\ cs_blockweave # "free" =>
          ChainTxsFrom(1) \o new_block.m_transactions \o m_mempool = submitted

\* a block mined with the ten oldest of eleven, the eleventh still pending
C3_Witness ==
    /\ cs_blockweave = "free"
    /\ Len(m_block_hashes) >= 2
    /\ Len(submitted) = 11
    /\ Len(map_blocks[m_block_hashes[2]].m_transactions) = 10
    /\ m_mempool # <<>>

\* C4: the map holds genesis and the head; the map and the hash sequence
\* never lose an entry and grow by exactly one entry per mined block.
C4_MapInv ==
    /\ m_genesis_block.m_hash \in DOMAIN map_blocks
    /\ map_blocks[m_genesis_block.m_hash] = m_genesis_block
    /\ m_current_block.m_hash \in DOMAIN map_blocks
    /\ map_blocks[m_current_block.m_hash] = m_current_block
C4_Step ==
    /\ DOMAIN map_blocks \subseteq DOMAIN map_blocks'
    /\ \A h \in DOMAIN map_blocks : map_blocks'[h] = map_blocks[h]
    /\ Len(m_block_hashes') >= Len(m_block_hashes)
    /\ SubSeq(m_block_hashes', 1, Len(m_block_hashes)) = m_block_hashes
    /\ IF new_block # NoBlock /\ new_block' = NoBlock
       THEN /\ Cardinality(DOMAIN map_blocks') = Cardinality(DOMAIN map_blocks) + 1
            /\ Len(m_block_hashes') = Len(m_block_hashes) + 1
       ELSE /\ DOMAIN map_blocks' = DOMAIN map_blocks
            /\ m_block_hashes' = m_block_hashes
C4_MapGrowsOnly == [][C4_MapInv /\ C4_MapInv' /\ C4_Step]_vars

C4_Witness ==
    /\ Len(m_block_hashes) = 3
    /\ Cardinality(DOMAIN map_blocks) = 3
    /\ m_current_block.m_n_height = 2

\* C5: once everything submitted has been mined (the pool is empty and no
\* MineBlock call is running), the cumulative data sizes of the non-genesis
\* blocks add up to the payload sizes of the submitted transactions.
C5_DataSizeSum ==
    (m_mempool = <<>> /\ new_block = NoBlock) =>
        SumCumulativeFrom(2) = SumSizes(submitted)

C5_Witness ==
    /\ m_mempool = <<>>
    /\ new_block = NoBlock
    /\ Len(submitted) = 11
    /\ Len(m_block_hashes) = 3
    /\ SumSizes(submitted) > 27

\* C6: SelectRecallBlock returns the genesis hash for a height <= 1 and a
\* stored hash for a height >= 2; the recall hash of every non-genesis block
\* is the hash of a block appended before it.
C6_RecallStored ==
    /\ \A h \in (-1)..1 : SelectRecallBlock(h) = {m_genesis_block.m_hash}
    /\ \A h \in 2..(MaxBlocks + 2) :
          /\ SelectRecallBlock(h) # {}
          /\ SelectRecallBlock(h) \subseteq DOMAIN map_blocks
    /\ \A i \in 2..Len(m_block_hashes) :
          LET block == map_blocks[m_block_hashes[i]]
          IN /\ \E j \in 1..(i - 1) : block.m_recall_block = m_block_hashes[j]
             /\ block.m_n_height <= 1 => block.m_recall_block = m_genesis_block.m_hash
    /\ new_block # NoBlock => new_block.m_recall_block \in DOMAIN map_blocks

\* the block of height 2 recalls the block of height 1
C6_Witness ==
    /\ Len(m_block_hashes) = 3
    /\ map_blocks[m_block_hashes[3]].m_recall_block = m_block_hashes[2]

\* C7 as claimed: GetData(id) is the payload of every submitted transaction
\* whose id is id, and empty for an id no submitted transaction has.
C7_Original ==
    cs_blockweave = "free" =>
        /\ \A i \in 1..Len(submitted) : GetData(submitted[i].m_id) = submitted[i].m_data
        /\ \A id \in AllIds :
              (\A i \in 1..Len(submitted) : submitted[i].m_id # id) => GetData(id) = <<>>

\* C7 amended: GetData(id) is the payload of a mined transaction whose id is
\* id when there is one, and empty when no mined transaction has that id.
C7_GetDataMined ==
    cs_blockweave = "free" =>
        \A id \in AllIds :
            LET hits == {tx \in MinedTxs : tx.m_id = id}
            IN /\ hits = {} => GetData(id) = <<>>
               /\ hits # {} => \E tx \in hits : GetData(id) = tx.m_data

\* one mined transaction has its id to itself and a payload; a pending one
\* has an id that no mined transaction has
C7_Witness ==
    /\ cs_blockweave = "free"
    /\ \E tx \in MinedTxs :
          /\ \A other \in MinedTxs : other.m_id = tx.m_id => other = tx
          /\ tx.m_data # <<>>
          /\ GetData(tx.m_id) = tx.m_data
    /\ \E i \in 1..Len(m_mempool) :
          /\ m_mempool[i].m_data # <<>>
          /\ \A tx \in MinedTxs : tx.m_id # m_mempool[i].m_id


\* C8: the StopRequested signal (f_stop_mining) is independent of
\* MiningEnabled: once true it is never reset to false, and it changes only
\* in the StopMining() call of main's shutdown sequence, so the handlers of
\* POST /mine/start and POST /mine/stop leave it unchanged.
C8_StopRequestedIndependent ==
    [][ /\ (f_stop_mining => f_stop_mining')
        /\ (f_stop_mining' # f_stop_mining => main_pc = "stop_mining") ]_vars

\* C9: while shutdown is not requested, whenever MiningEnabled is true and
\* the pool is non-empty, the oldest pending transaction is eventually in a
\* mined block (unless mining is disabled or shutdown requested meanwhile).
C9_MiningKeepsRunning ==
    \A n \in 1..MaxRequests :
        ( /\ main_pc = "poll"
          /\ ~g_f_shutdown_requested
          /\ f_mining_enabled
          /\ m_mempool # <<>>
          /\ Head(m_mempool).ptr = n )
        ~> ( \/ \E tx \in MinedTxs : tx.ptr = n
             \/ ~f_mining_enabled
             \/ g_f_shutdown_requested )

\* where main is once mining_thread.join(), peer_manager.Stop() and
\* rest_api.Stop() have returned
PcAfterRestStop == {"print_chain", "destroy_peer", "destroy_rest", "done"}
PcAfterPeerStop == {"rest_stop", "rest_join_listener", "rest_join_workers"} \cup PcAfterRestStop
PcAfterMiningJoin ==
    {"peer_stop", "peer_join_listener", "peer_join_thread", "peer_join_peers"}
        \cup PcAfterPeerStop

\* C10: once main has seen the shutdown flag it eventually gets through the
\* shutdown sequence, whatever requests are served meanwhile; stated for the
\* first step of the sequence, which every later step waits for: the join
\* of the mining thread returns.
C10_ShutdownCompletes ==
    (main_pc = "poll" /\ g_f_shutdown_requested) ~> (main_pc \in PcAfterMiningJoin)

RestTasksTerminated ==
    /\ listener_pc = "done"
    /\ \A w \in Workers : worker_pc[w] = "done"

PeerTasksTerminated ==
    /\ peer_listener_pc = "done"
    /\ peer_thread_pc = "done"
    /\ \A i \in 1..Len(m_outbound_peers) : m_outbound_peers[i].thread_pc = "done"

\* C11: the shutdown steps happen in a fixed order: the mining thread has
\* terminated when peer_manager.Stop() begins, peer_manager.Stop() has
\* returned (flags down, socket closed, its threads terminated) when
\* rest_api.Stop() begins, and rest_api.Stop() has returned (its threads
\* terminated) when the final snapshot is printed.
C11_ShutdownOrder ==
    /\ main_pc \in PcAfterMiningJoin => mining_pc = "done"
    /\ main_pc \in PcAfterPeerStop =>
          /\ ~peer_f_running
          /\ n_listen_socket = "closed"
          /\ PeerTasksTerminated
    /\ main_pc \in PcAfterRestStop =>
          /\ ~rest_f_running
          /\ n_server_socket = "closed"
          /\ RestTasksTerminated
    /\ rest_f_stop_requested /\ main_pc \notin {"abort_rest_stop", "abort_rest_join_listener",
           "abort_rest_join_workers", "abort_destroy_peer", "abort_destroy_rest", "aborted"}
          => peer_f_stop_requested /\ mining_pc = "done"

\* the snapshot is about to be printed, after a block was mined
C11_Witness ==
    /\ main_pc = "print_chain"
    /\ Len(m_block_hashes) > 1

\* C12: no block is added once the mining thread is joined, and once
\* rest_api.Stop() has returned no ledger operation is running or starts:
\* the lock is free, no worker is in a handler, the ledger does not change.
C12_Step ==
    /\ main_pc \in PcAfterMiningJoin =>
          /\ map_blocks' = map_blocks
          /\ m_block_hashes' = m_block_hashes
          /\ m_current_block' = m_current_block
    /\ main_pc \in PcAfterRestStop =>
          /\ cs_blockweave = "free"
          /\ \A w \in Workers : worker_pc[w] = "done"
          /\ mining_pc = "done"
          /\ ledgerVars' = ledgerVars

C12_LedgerQuietAtSnapshot == [][C12_Step]_vars

\* main has returned after a run in which transactions were submitted and
\* a block was mined
C12_Witness ==
    /\ main_pc = "done"
    /\ n_created > 0
    /\ Len(m_block_hashes) > 1

\* C13: startup goes REST server, peer manager, mining.  If rest_api.Start()
\* fails main returns with no peer manager thread and no mining thread; if
\* peer_manager.Start() fails main returns after rest_api.Stop(), with the
\* REST threads terminated, and main never reaches StartMining() or the
\* spawn of the mining thread.
C13_Inv ==
    /\ listener_pc = "none" => peer_listener_pc = "none" /\ ~peer_f_running
    /\ peer_listener_pc = "none" => mining_pc = "none"
    /\ main_pc \in {"abort_rest_stop", "abort_rest_join_listener", "abort_rest_join_workers",
                    "abort_destroy_peer", "abort_destroy_rest", "aborted"} =>
          /\ mining_pc = "none"
          /\ peer_listener_pc = "none"
          /\ peer_thread_pc = "none"
          /\ ~peer_f_running
    /\ main_pc = "aborted" =>
          /\ ~rest_f_running
          /\ n_server_socket = "closed"
          /\ listener_pc \in {"none", "done"}
          /\ \A w \in Workers : worker_pc[w] = listener_pc

C13_Step ==
    /\ main_pc' = "start_mining" /\ main_pc # "start_mining" =>
          main_pc = "peer_start" /\ rest_f_running /\ peer_f_running'
    /\ main_pc' = "peer_start" /\ main_pc # "peer_start" =>
          main_pc = "rest_start" /\ rest_f_running'
    /\ mining_pc = "none" /\ mining_pc' # "none" => main_pc = "spawn_mining"
    /\ main_pc \in {"abort_rest_stop", "abort_rest_join_listener", "abort_rest_join_workers",
                    "abort_destroy_peer", "abort_destroy_rest", "aborted"} =>
          main_pc' \notin {"start_mining", "start_mining_2", "spawn_mining", "poll"}

DequeueReturns(w) == worker_pc[w] \in {"q_ready", "q_waiting"} /\ worker_pc'[w] = "q_call"

\* C14: a Dequeue that returns failure delivers nothing and found the queue
\* empty, by timeout when the queue is not shut down; a Dequeue that returns
\* an item returns the front of the queue and removes it; so after
\* Shutdown() the queued items come out in FIFO order before any failure.
C14_Step ==
    \A w \in Workers : DequeueReturns(w) =>
        IF dequeue_result'[w].f_ok
        THEN /\ m_queue # <<>>
             /\ worker_request'[w] = Head(m_queue)
             /\ m_queue' = Tail(m_queue)
        ELSE /\ m_queue = <<>>
             /\ m_queue' = m_queue
             /\ worker_request' = worker_request
             /\ IF f_shutdown THEN dequeue_result'[w].f_shutdown
                ELSE dequeue_result'[w].f_timeout

C14_DequeueDrainsThenFails == [][C14_Step]_vars

\* one worker was handed an item after Shutdown(), another was refused after
\* Shutdown(), and the queue is empty
C14_Witness ==
    /\ f_shutdown
    /\ m_queue = <<>>
    /\ \E w \in Workers : dequeue_result[w].f_ok /\ dequeue_result[w].f_shutdown
    /\ \E w \in Workers : ~dequeue_result[w].f_ok /\ dequeue_result[w].f_shutdown

\* C16: Shutdown() wakes every waiter: once Shutdown() has returned, a
\* Dequeue blocked in the wait has been notified, so none is left to its
\* timeout.
C16_ShutdownWakesAll ==
    main_pc = "q_shut" =>
        \A w \in Workers : worker_pc[w] = "q_waiting" => w \in cv_notified


\* C15: no request enqueued before the queue was shut down is dropped: when
\* every worker has exited, no such request is left in the queue.
C15_NoRequestDropped ==
    (\A w \in Workers : worker_pc[w] = "done") =>
        \A i \in 1..Len(m_queue) : ~m_queue[i].f_before_shutdown

\* C17: rest_api.Stop() on a running server eventually returns: the blocked
\* listener is released by the close of the socket and joined, then the
\* workers are joined.
C17_RestStopReturns ==
    (main_pc \in {"rest_stop", "abort_rest_stop"})
        ~> (main_pc \in PcAfterRestStop \cup {"abort_destroy_peer", "abort_destroy_rest",
                                              "aborted"})


\* C18: Stop() on a running peer manager eventually returns, and when it has
\* returned the listener thread, the management thread and every peer's
\* connection thread have terminated, the listen socket is closed and the
\* peer set is empty.
C18_PeerStopReturns ==
    /\ [](main_pc = "p_stopped" =>
            /\ ~peer_f_running
            /\ n_listen_socket = "closed"
            /\ PeerTasksTerminated
            /\ m_outbound_peers = <<>>)
    /\ [][main_pc = "p_stop_join_peers" /\ main_pc' = "p_stopped" =>
            PeerTasksTerminated]_vars
    /\ (main_pc = "p_stop_join_listener") ~> (main_pc = "p_stopped")

\* Stop() has returned on a manager whose last AddPeer call connected
C18_Witness ==
    /\ main_pc = "p_stopped"
    /\ add_peer_result = "true"
    /\ n_add_peer > 2

\* C19: Stop() on a REST server or a peer manager that is not running
\* changes no state of the component: no flag, no socket, no thread.
C19_Step ==
    /\ main_pc \in {"destroy_peer", "abort_destroy_peer"} /\ main_pc' # main_pc =>
          ~peer_f_running /\ peerVars' = peerVars
    /\ main_pc \in {"destroy_rest", "abort_destroy_rest"} /\ main_pc' # main_pc =>
          ~rest_f_running /\ restVars' = restVars /\ workerVars' = workerVars

C19_StopNotRunningNoOp == [][C19_Step]_vars

\* main has returned after rest_api.Start() failed: ~CRestApiServer called
\* Stop() on a server that never ran
C19_Witness ==
    /\ main_pc = "aborted"
    /\ listener_pc = "none"

\* C20: an AddPeer call made when the set holds MAX_OUTBOUND_PEERS peers
\* returns false and leaves the set, and so the connections and threads,
\* as they are.
C20_Step ==
    n_add_peer' = n_add_peer + 1 /\ Len(m_outbound_peers) >= MAX_OUTBOUND_PEERS =>
        /\ add_peer_result' = "false: maximum reached"
        /\ m_outbound_peers' = m_outbound_peers

C20_AddPeerAtMax == [][C20_Step]_vars

\* the ninth call was refused with eight peers in the set
C20_Witness ==
    /\ Len(m_outbound_peers) = MAX_OUTBOUND_PEERS
    /\ add_peer_result = "false: maximum reached"

\* C21: the number of registered outbound peers never exceeds the maximum,
\* also when AddPeer calls run concurrently.
C21_PeerSetBounded == Len(m_outbound_peers) <= MAX_OUTBOUND_PEERS

\* C22: the peer set never holds two entries with the same (address, port),
\* also when AddPeer calls for the same endpoint run concurrently.
C22_NoDuplicatePeers ==
    \A i, j \in 1..Len(m_outbound_peers) :
        (/\ m_outbound_peers[i].str_address = m_outbound_peers[j].str_address
         /\ m_outbound_peers[i].n_port = m_outbound_peers[j].n_port) => i = j

\* ---- the requests of the claims C23 to C26, in the terms of the client

Contains(str, str_pattern) == Find(str, str_pattern, 1) # 0

IsErrorBody(str_body) == Find(str_body, "{\"error\":", 1) = 1

IsSuccessBody(str_body) == Contains(str_body, "\"status\": \"success\"")

\* the step serves a request for this method and path
Serves(str_method, str_path) ==
    /\ n_handled' = n_handled + 1
    /\ http_request'.str_method = str_method
    /\ http_request'.str_path = str_path

\* a JSON value as written, without the quotes of a string
Unquoted(str_literal) ==
    IF Len(str_literal) >= 2 /\ CharAt(str_literal, 1) = "\""
           /\ CharAt(str_literal, Len(str_literal)) = "\""
    THEN SubSeq(str_literal, 2, Len(str_literal) - 1)
    ELSE str_literal

SentKeys(request) == {request.sent[n][1] : n \in 1..Len(request.sent)}

SentValue(request, str_key) ==
    Unquoted(request.sent[CHOOSE n \in 1..Len(request.sent) : request.sent[n][1] = str_key][2])

\* the '=' characters that end a base64 text
Base64Padding(str) ==
    IF Len(str) >= 2 /\ SubSeq(str, Len(str) - 1, Len(str)) = "==" THEN 2
    ELSE IF Len(str) >= 1 /\ CharAt(str, Len(str)) = "=" THEN 1
    ELSE 0

\* base64 as RFC 4648 defines it: groups of four characters of the alphabet,
\* the last group padded with one or two '='
ValidBase64(str) ==
    /\ Len(str) > 0
    /\ Len(str) % 4 = 0
    /\ \A n \in 1..(Len(str) - Base64Padding(str)) : IsBase64(CharAt(str, n))

Base64DecodedLength(str) == 3 * (Len(str) \div 4) - Base64Padding(str)

\* an unsigned decimal number with at most six decimals
IsDecimal(str) ==
    LET str_int == DigitsAt(str, 1)
        str_frac == IF CharAt(str, Len(str_int) + 1) = "."
                    THEN DigitsAt(str, Len(str_int) + 2) ELSE ""
    IN  /\ Len(str_int) > 0
        /\ Len(str_frac) <= 6
        /\ Len(str) = Len(str_int) + (IF Len(str_frac) > 0 THEN 1 + Len(str_frac) ELSE 0)

\* a decimal number times 1,000,000
TimesMillion(str) ==
    LET str_int == DigitsAt(str, 1)
        str_frac == DigitsAt(str, Len(str_int) + 2)
    IN  DigitsValue(str_int) * 1000000 + DigitsValue(Substr0(str_frac \o "000000", 6))

\* the body holds the four fields, data is base64 and fee a decimal number
WellFormedTransaction(request) ==
    /\ {"from", "to", "data", "fee"} \subseteq SentKeys(request)
    /\ SentValue(request, "from") # ""
    /\ SentValue(request, "to") # ""
    /\ ValidBase64(SentValue(request, "data"))
    /\ IsDecimal(SentValue(request, "fee"))

\* C23: POST /transaction creates a transaction and grows the pool by exactly
\* one if and only if the body holds from, to, data and fee and data is valid
\* base64; otherwise it answers with an error, creates nothing and leaves the
\* pool alone.  On success data_size is the length of the decoded payload and
\* the reward is the fee times 1,000,000.
C23_Step ==
    Serves("POST", "/transaction") =>
        IF WellFormedTransaction(http_request')
        THEN LET n_size == Base64DecodedLength(SentValue(http_request', "data"))
                 n_fee == TimesMillion(SentValue(http_request', "fee"))
             IN  /\ n_created' = n_created + 1
                 /\ Len(m_mempool') = Len(m_mempool) + 1
                 /\ SubSeq(m_mempool', 1, Len(m_mempool)) = m_mempool
                 /\ m_mempool'[Len(m_mempool')].m_n_data_size = n_size
                 /\ m_mempool'[Len(m_mempool')].m_n_reward = n_fee
                 /\ IsSuccessBody(http_response'.str_body)
                 /\ Contains(http_response'.str_body, "\"data_size\": " \o ToString(n_size) \o ",")
                 /\ Contains(http_response'.str_body, "\"fee\": " \o ToString(n_fee) \o "\n")
        ELSE /\ n_created' = n_created
             /\ m_mempool' = m_mempool
             /\ IsErrorBody(http_response'.str_body)

C23_PostTransaction == [][C23_Step]_vars

\* the errors the handlers give for what the client sent, as opposed to
\* those for a failure of the disk
MalformedInputErrors ==
    { "{\"error\": \"Missing required fields: from, to, data\"}",
      "{\"error\": \"Invalid base64 data\"}",
      "{\"error\": \"Invalid fee value\"}",
      "{\"error\": \"Missing boundary in Content-Type\"}",
      "{\"error\": \"Failed to parse multipart data\"}",
      "{\"error\": \"Empty file data\"}" }

\* C24: a request rejected for malformed input (a missing JSON field, bad
\* base64, a bad or empty multipart or file payload) is answered with a JSON
\* error body and a 4xx status, never with 200.
C24_MalformedIs4xx ==
    http_response.str_body \in MalformedInputErrors =>
        http_response.n_status_code \in 400..499

\* the routing table
Routed(request) ==
    \/ /\ request.str_method = "GET"
       /\ \/ request.str_path = "/chain"
          \/ Substr0(request.str_path, 7) = "/block/"
          \/ Substr0(request.str_path, 6) = "/data/"
    \/ /\ request.str_method = "POST"
       /\ request.str_path \in {"/transaction", "/files", "/mine/start", "/mine/stop"}

\* C25: a request that matches no entry of the routing table gets a JSON
\* error body, with status 404 when its method is GET or POST and 405 when it
\* is any other; only a request with an unmatched path gets 404; and an
\* unmatched request changes nothing of the ledger.
C25_Step ==
    n_handled' = n_handled + 1 =>
        /\ ~Routed(http_request') =>
              /\ IsErrorBody(http_response'.str_body)
              /\ http_response'.n_status_code =
                     (IF http_request'.str_method \in {"GET", "POST"} THEN 404 ELSE 405)
              /\ UNCHANGED <<ledgerVars, flagVars, n_created>>
        /\ http_response'.n_status_code = 404 => ~Routed(http_request')

C25_Unmatched == [][C25_Step]_vars

\* C26: POST /files with a non-empty payload writes exactly one file, whose
\* bytes are the uploaded bytes, and adds exactly one zero-fee transaction
\* whose payload is those bytes, unless it answers with an error, and then it
\* adds no transaction; with an empty payload it answers with an error and
\* adds no transaction.
C26_Step ==
    Serves("POST", "/files") =>
        \/ /\ IsErrorBody(http_response'.str_body)
           /\ m_mempool' = m_mempool
           /\ n_created' = n_created
        \/ /\ http_request'.sent # ""
           /\ IsSuccessBody(http_response'.str_body)
           /\ Len(m_files') = Len(m_files) + 1
           /\ SubSeq(m_files', 1, Len(m_files)) = m_files
           /\ m_files'[Len(m_files')].bytes = Bytes(http_request'.sent)
           /\ n_created' = n_created + 1
           /\ Len(m_mempool') = Len(m_mempool) + 1
           /\ SubSeq(m_mempool', 1, Len(m_mempool)) = m_mempool
           /\ m_mempool'[Len(m_mempool')].m_data = Bytes(http_request'.sent)
           /\ m_mempool'[Len(m_mempool')].m_n_reward = 0

C26_PostFiles == [][C26_Step]_vars

\* every registered peer is inactive and its socket closed
PeersClosed ==
    \A i \in 1..Len(m_outbound_peers) :
        ~m_outbound_peers[i].f_active /\ m_outbound_peers[i].n_socket = "closed"

\* C27: Stop() first clears the running flag and closes the listen socket,
\* then makes every registered peer inactive and closes its socket, only then
\* joins the listener and the management thread, only after that joins the
\* peers' connection threads, and only after all joins clears the set; no
\* connection thread is joined while its peer's socket is open.
C27_Step ==
    /\ main_pc' = "p_stop_join_listener" /\ main_pc # main_pc' =>
          /\ ~peer_f_running /\ n_listen_socket = "closed"
          /\ PeersClosed'
    /\ main_pc = "p_stop_join_listener" /\ main_pc # main_pc' =>
          /\ PeersClosed
          /\ main_pc' = "p_stop_join_thread"
          /\ m_outbound_peers' = m_outbound_peers
    /\ main_pc = "p_stop_join_thread" /\ main_pc # main_pc' =>
          /\ PeersClosed
          /\ peer_listener_pc = "done"
          /\ main_pc' = "p_stop_join_peers"
          /\ m_outbound_peers' = m_outbound_peers
    /\ main_pc = "p_stop_join_peers" /\ main_pc # main_pc' =>
          /\ PeersClosed
          /\ peer_listener_pc = "done" /\ peer_thread_pc = "done"
          /\ PeerThreadsJoined
          /\ m_outbound_peers' = <<>>
    /\ Len(m_outbound_peers') < Len(m_outbound_peers) =>
          main_pc = "p_stop_join_peers" /\ main_pc' = "p_stopped"

C27_StopOrder == [][C27_Step]_vars

\* Stop() is about to clear a set of two peers whose threads it has joined
C27_Witness ==
    /\ main_pc = "p_stop_join_peers"
    /\ Len(m_outbound_peers) >= 2
    /\ PeerThreadsJoined
    /\ PeersClosed

\* C28: every public operation of the ledger on the map, the pool or the
\* head holds the ledger lock for its whole duration.  At most one of them
\* is executing at a time; an operation other than MineBlock returns only
\* from a state in which it holds the lock and no block is being built, so
\* that every transaction submitted so far is either in a stored block or in
\* the pool; while a proof-of-work search is in progress no other operation
\* returns and nothing but the block being built changes; the pool, the
\* map, the list of hashes and the head change only in a step of the lock's
\* holder.
InsideLedgerCall == {w \in Workers : worker_pc[w] \in LedgerCalls}
C28_Step ==
    /\ Cardinality(InsideLedgerCall) + (IF new_block # NoBlock THEN 1 ELSE 0) <= 1
    /\ \A w \in Workers :
          (worker_pc[w] \in LedgerCalls /\ worker_pc'[w] = "call") =>
              /\ cs_blockweave = worker_pc[w]
              /\ new_block = NoBlock
              /\ ChainTxsFrom(1) \o m_mempool = submitted
    /\ cs_blockweave = "MineBlock" =>
          /\ new_block # NoBlock
          /\ mining_pc = "pow"
          /\ m_mempool' = m_mempool
          /\ submitted' = submitted
          /\ \A w \in Workers :
                worker_pc[w] \notin LedgerCalls /\ worker_pc'[w] \notin LedgerCalls
          /\ observed' # observed => observed'[1] = "flags"
    /\ <<map_blocks, m_block_hashes, m_current_block, m_mempool>>' #
          <<map_blocks, m_block_hashes, m_current_block, m_mempool>> =>
             \/ cs_blockweave = "free" /\ cs_blockweave' = "MineBlock"
             \/ cs_blockweave \in {"MineBlock", "AddTransaction"} /\ cs_blockweave' = "free"
C28_LedgerLockHeld == [][C28_Step]_vars
C28_Witness ==
    /\ cs_blockweave = "MineBlock"
    /\ Len(m_block_hashes) = 2
    /\ observed = <<"GetMempoolSize", 1>>
    /\ m_mempool = <<>>

\* C29: the mining thread's polling never waits for the ledger lock, and
\* the four flag operations never do.  Whenever MiningThread is at one of
\* the tests of its loop (ShouldStopMining, IsMiningEnabled, whether the
\* pool has work) it can take its next step whoever holds the lock; and
\* whenever MineBlock holds the lock, a thread that calls or is inside
\* StartMining or StopMining, or reads the two flags, can take its step.
MiningPolling == {"while", "if_enabled", "if_pool"}
C29_FlagCallsLockFree ==
    cs_blockweave = "MineBlock" =>
        \A w \in Workers :
            /\ worker_pc[w] = "call" =>
                  /\ ENABLED Call_StartMining_Enable(w)
                  /\ ENABLED Call_StopMining_SetStop(w)
                  /\ ENABLED Call_ReadFlags(w)
            /\ worker_pc[w] = "start_2" => ENABLED Call_StartMining_ClearStop(w)
            /\ worker_pc[w] = "stop_2" => ENABLED Call_StopMining_Disable(w)
C29_PollingLockFree ==
    /\ mining_pc \in MiningPolling => ENABLED MiningStep
    /\ C29_FlagCallsLockFree

\* C30: blocks are mined only while mining is enabled.  MiningThread calls
\* MineBlock only in an iteration in which it read ShouldStopMining false,
\* then IsMiningEnabled true, then a non-empty pool.  A StopMining call
\* does not interrupt an iteration that has made these reads: once a
\* StopMining call has completed and until the next StartMining begins, an
\* iteration that is at or before the IsMiningEnabled test mines nothing and
\* the thread stays there or leaves the loop, so at most one more block,
\* that of the iteration in progress, is added.
MiningStopped ==
    /\ f_stop_mining
    /\ ~f_mining_enabled
    /\ \A w \in Workers : worker_pc[w] \notin {"start_2", "stop_2"}
MiningNotCommitted == {"while", "if_enabled", "done"}
C30_CallsOnlyAfterTests ==
    /\ mining_pc' # mining_pc =>
          /\ mining_pc' = "if_enabled" => mining_pc = "while" /\ ~f_stop_mining
          /\ mining_pc' = "if_pool" => mining_pc = "if_enabled" /\ f_mining_enabled
          /\ mining_pc' = "mine" => mining_pc = "if_pool" /\ m_mempool # <<>>
    /\ (new_block = NoBlock /\ new_block' # NoBlock) => mining_pc = "mine"
    /\ m_block_hashes' # m_block_hashes => mining_pc = "pow" /\ mining_pc' = "while"
C30_Step ==
    /\ C30_CallsOnlyAfterTests
    /\ (MiningStopped /\ mining_pc \in MiningNotCommitted) =>
          /\ mining_pc' \in MiningNotCommitted
          /\ m_block_hashes' = m_block_hashes
          /\ new_block' = NoBlock
C30_MinedOnlyWhileEnabled == [][C30_Step]_vars
C30_Witness ==
    /\ MiningStopped
    /\ mining_pc = "pow"
    /\ new_block # NoBlock
    /\ observed = <<"flags", FALSE, TRUE>>

\* C30 as claimed: once a StopMining call has completed, no block is added
\* until the next StartMining.
C30_Original_Step ==
    /\ C30_CallsOnlyAfterTests
    /\ MiningStopped => m_block_hashes' = m_block_hashes
C30_Original == [][C30_Original_Step]_vars

\* C31: the ledger is one linear chain.  The block stored under the hash at
\* position i of m_block_hashes (from 0) has height i; the genesis block has
\* height 0, the zero previous hash and no transactions; every other block's
\* previous hash is the hash at position i - 1; the head is the block of
\* the last hash.
BlockAt(i) == map_blocks[m_block_hashes[i]]
C31_LinearChain ==
    /\ \A i \in 1..Len(m_block_hashes) :
          /\ m_block_hashes[i] \in DOMAIN map_blocks
          /\ BlockAt(i).m_hash = m_block_hashes[i]
          /\ BlockAt(i).m_n_height = i - 1
          /\ i > 1 => BlockAt(i).m_previous_block = m_block_hashes[i - 1]
    /\ BlockAt(1) = m_genesis_block
    /\ m_genesis_block.m_n_height = 0
    /\ m_genesis_block.m_previous_block = ZeroHash
    /\ m_genesis_block.m_transactions = <<>>
    /\ m_current_block = BlockAt(Len(m_block_hashes))
C31_Witness ==
    /\ Len(m_block_hashes) = 3
    /\ m_current_block.m_n_height = 2
    /\ new_block = NoBlock

\* C32: every stored block, the genesis block included, has a hash whose
\* first four hex digits are below "0fff" in string order, and the block a
\* step stores or makes head is the block under search with the digest of
\* that step, a digest below "0fff".
BelowPrefix(hash) == LexLess(FirstFourHex(hash), <<0, 15, 15, 15>>)
C32_Stored ==
    /\ \A h \in DOMAIN map_blocks : BelowPrefix(h) /\ BelowPrefix(map_blocks[h].m_hash)
    /\ \A i \in 1..Len(m_block_hashes) : BelowPrefix(m_block_hashes[i])
    /\ BelowPrefix(m_current_block.m_hash)
C32_Step ==
    /\ C32_Stored
    /\ (map_blocks' # map_blocks \/ m_current_block' # m_current_block) =>
          /\ new_block # NoBlock
          /\ \E nonce \in Nonces : m_current_block' = MineOnce(new_block, nonce)
          /\ BelowPrefix(m_current_block'.m_hash)
          /\ map_blocks' = MapInsert(map_blocks, m_current_block'.m_hash, m_current_block')
    /\ (new_block # NoBlock /\ new_block' # NoBlock) =>
          /\ map_blocks' = map_blocks
          /\ m_current_block' = m_current_block
C32_DifficultyMet == [][C32_Step]_vars
C32_Witness ==
    /\ Len(m_block_hashes) = 2
    /\ new_block # NoBlock
    /\ new_block.m_hash # ZeroHash
    /\ ~BelowPrefix(new_block.m_hash)

\* C33: MineBlock on an empty pool changes nothing and runs no search: from
\* a state with an empty pool and no block under construction no step
\* changes the map, the hashes or the head or starts a block; and every
\* block but the genesis block holds at least one transaction.
C33_Step ==
    /\ (m_mempool = <<>> /\ new_block = NoBlock) =>
          /\ map_blocks' = map_blocks
          /\ m_block_hashes' = m_block_hashes
          /\ m_current_block' = m_current_block
          /\ new_block' = NoBlock
          /\ cs_blockweave' = cs_blockweave
    /\ \A h \in DOMAIN map_blocks :
          map_blocks[h] # m_genesis_block => Len(map_blocks[h].m_transactions) >= 1
    /\ new_block # NoBlock => Len(new_block.m_transactions) >= 1
C33_EmptyPoolNoOp == [][C33_Step]_vars
C33_Witness ==
    /\ m_mempool = <<>>
    /\ new_block = NoBlock
    /\ cs_blockweave = "free"
    /\ Len(m_block_hashes) = 3

\* C34: a pass of the management thread removes exactly the peers whose
\* f_connected is false.  In a step of a running manager that shortens the
\* set, every peer that was connected is still there and unchanged (its
\* socket and its thread included), every peer that is there was connected
\* before, and the peers kept are in the order they were in.
IndexBefore(peer) == CHOOSE i \in 1..Len(m_outbound_peers) : m_outbound_peers[i] = peer
C34_Step ==
    (Len(m_outbound_peers') < Len(m_outbound_peers) /\ ~peer_f_stop_requested) =>
        /\ \A i \in 1..Len(m_outbound_peers) :
              m_outbound_peers[i].f_connected <=>
                  \E j \in 1..Len(m_outbound_peers') : m_outbound_peers'[j] = m_outbound_peers[i]
        /\ \A j \in 1..Len(m_outbound_peers') :
              \E i \in 1..Len(m_outbound_peers) :
                  m_outbound_peers[i] = m_outbound_peers'[j] /\ m_outbound_peers[i].f_connected
        /\ \A j, k \in 1..Len(m_outbound_peers') :
              j < k => IndexBefore(m_outbound_peers'[j]) < IndexBefore(m_outbound_peers'[k])
        /\ Len(m_outbound_peers') =
              Cardinality({i \in 1..Len(m_outbound_peers) : m_outbound_peers[i].f_connected})
C34_CleanupRemovesDisconnected == [][C34_Step]_vars
C34_Witness ==
    /\ peer_f_running
    /\ Len(m_outbound_peers) = 2
    /\ n_add_peer = 4
    /\ m_outbound_peers[1].str_address = Address(2)
    /\ m_outbound_peers[2].str_address = Address(4)

\* C35: while the manager runs, a registered peer whose connection has
\* ended (its socket is closed, by either end, or its thread has exited) is
\* eventually no longer registered as such: its flag is cleared and the
\* management thread removes it.
ConnectionEnded(peer) == peer.n_socket # "open" \/ peer.thread_pc = "done"
EndedPeerRegistered(n) ==
    \E i \in 1..Len(m_outbound_peers) :
        m_outbound_peers[i].str_address = Address(n) /\ ConnectionEnded(m_outbound_peers[i])
C35_EndedPeerRemoved ==
    \A n \in 1..MaxCleanupAdd :
        (peer_f_running /\ EndedPeerRegistered(n)) ~>
            (~peer_f_running \/ ~EndedPeerRegistered(n))

\* The part of C35 that holds: a peer DisconnectPeer was applied to is removed.
DisconnectedPeerRegistered(n) ==
    \E i \in 1..Len(m_outbound_peers) :
        m_outbound_peers[i].str_address = Address(n) /\ ~m_outbound_peers[i].f_connected
DisconnectedPeerRemoved ==
    \A n \in 1..MaxCleanupAdd :
        (peer_f_running /\ DisconnectedPeerRegistered(n)) ~> ~DisconnectedPeerRegistered(n)

\* C36: every request the listener enqueued is dequeued by at most one
\* worker, whatever the interleaving: each accepted socket is at every
\* moment in the queue once and with no worker, or with exactly one worker
\* and not in the queue, or done with; nothing has been sent on a socket
\* that is still queued, one response has been sent and the socket closed
\* once when it is done with, and a worker holds only what was enqueued.
\* A step that hands a request to a worker takes the front of the queue.
QueuedAt(n_client_socket) ==
    {i \in 1..Len(m_queue) : m_queue[i].n_client_socket = n_client_socket}
HeldBy(n_client_socket) ==
    {w \in Workers : worker_request[w] # NoRequest
                       /\ worker_request[w].n_client_socket = n_client_socket}
C36_Inv ==
    /\ Len(client_sockets) = n_accepted
    /\ \A w \in Workers :
          worker_request[w] # NoRequest =>
              worker_request[w].n_client_socket \in 1..Len(client_sockets)
    /\ \A s \in 1..Len(client_sockets) :
          LET n_sent == client_sockets[s].n_sent
              n_closed == client_sockets[s].n_closed
          IN  /\ Cardinality(QueuedAt(s)) + Cardinality(HeldBy(s)) <= 1
              /\ QueuedAt(s) # {} => n_sent = 0 /\ n_closed = 0
              /\ \A w \in HeldBy(s) :
                    /\ n_closed = 0
                    /\ n_sent = (IF worker_pc[w] = "close" THEN 1 ELSE 0)
              /\ (QueuedAt(s) = {} /\ HeldBy(s) = {}) => n_sent = 1 /\ n_closed = 1
C36_Step ==
    /\ C36_Inv
    /\ \A w \in Workers :
          (worker_request'[w] # worker_request[w] /\ worker_request'[w] # NoRequest) =>
              /\ m_queue # <<>>
              /\ worker_request'[w] = Head(m_queue)
              /\ \A v \in Workers \ {w} : worker_request'[v] = worker_request[v]
C36_OneWorkerPerRequest == [][C36_Step]_vars
C36_Witness ==
    /\ n_accepted = 3
    /\ client_sockets[1] = [n_sent |-> 1, n_closed |-> 1]
    /\ \E w, v \in Workers :
          /\ w # v
          /\ worker_pc[w] = "close" /\ worker_request[w].n_client_socket = 3
          /\ worker_pc[v] = "q_call" /\ worker_request[v] # NoRequest
                /\ worker_request[v].n_client_socket = 2

\* C37: Start() fails fast.  A Start() that returns false leaves its
\* component not running, with no thread started and its socket closed; a
\* CRestApiServer::Start() that returns true has started the listener and
\* every one of the worker threads, a CPeerManager::Start() that returns
\* true its listener and its management thread; CPeerManager::Start() on a
\* running manager returns true and changes nothing.  No thread of a
\* component runs unless its Start() has succeeded.
RestThreadsNotStarted == listener_pc = "none" /\ \A w \in Workers : worker_pc[w] = "none"
PeerThreadsNotStarted == peer_listener_pc = "none" /\ peer_thread_pc = "none"
C37_Step ==
    /\ ~rest_f_running => RestThreadsNotStarted /\ n_server_socket = "closed"
    /\ ~peer_f_running => PeerThreadsNotStarted /\ n_listen_socket = "closed"
    /\ (main_pc' # main_pc /\ main_pc' = "rest_api.Start: false") =>
          /\ ~rest_f_running'
          /\ RestThreadsNotStarted'
          /\ n_server_socket' = "closed"
    /\ (main_pc' # main_pc /\ main_pc' = "peer_manager.Start: false") =>
          /\ ~peer_f_running'
          /\ PeerThreadsNotStarted'
          /\ n_listen_socket' = "closed"
    /\ (main_pc' # main_pc /\ main_pc' = "rest_api.Start: true") =>
          /\ RestThreadsNotStarted
          /\ rest_f_running' /\ n_server_socket' = "open"
          /\ listener_pc' = "accept"
          /\ DOMAIN worker_pc' = 1..NumWorkers
          /\ \A w \in 1..NumWorkers : worker_pc'[w] = "loop"
    /\ (main_pc' # main_pc /\ main_pc' = "peer_manager.Start: true") =>
          /\ PeerThreadsNotStarted
          /\ peer_f_running' /\ n_listen_socket' = "open"
          /\ peer_listener_pc' = "accept" /\ peer_thread_pc' = "loop"
    /\ (main_pc' # main_pc /\ main_pc' = "peer_manager.Start: true, already running") =>
          /\ peer_f_running
          /\ peerVars' = peerVars
C37_StartFailsFast == [][C37_Step]_vars
C37_Witness ==
    /\ main_pc = "peer_manager.Start: true, already running"
    /\ rest_f_running
    /\ \E w \in Workers : worker_pc[w] = "process"

\* C38: GetData scans the stored blocks in append order and each block's
\* transactions in list order and returns the payload of the first one whose
\* id matches: of several mined transactions with one id the earliest wins,
\* and an id that only a pool entry has yields the empty result.
FirstMinedMatch(id) ==
    LET chain == ChainTxsFrom(1)
        hits == {i \in 1..Len(chain) : chain[i].m_id = id}
    IN IF hits = {} THEN <<>>
       ELSE chain[CHOOSE i \in hits : \A j \in hits : i <= j].m_data
C38_FirstMinedMatchWins ==
    /\ \A id \in AllIds : GetData(id) = FirstMinedMatch(id)
    /\ \A i \in 1..Len(m_mempool) :
          (\A tx \in MinedTxs : tx.m_id # m_mempool[i].m_id) =>
              GetData(m_mempool[i].m_id) = <<>>

\* two mined transactions share an id and differ in payload, the earlier
\* one is returned; a pending transaction with a payload is not found
C38_Witness ==
    /\ \E i, j \in 1..Len(ChainTxsFrom(1)) :
          /\ i < j
          /\ ChainTxsFrom(1)[i].m_id = ChainTxsFrom(1)[j].m_id
          /\ ChainTxsFrom(1)[i].m_data # ChainTxsFrom(1)[j].m_data
          /\ \A k \in 1..(i - 1) : ChainTxsFrom(1)[k].m_id # ChainTxsFrom(1)[i].m_id
          /\ GetData(ChainTxsFrom(1)[i].m_id) = ChainTxsFrom(1)[i].m_data
    /\ \E i \in 1..Len(m_mempool) :
          /\ m_mempool[i].m_data # <<>>
          /\ \A tx \in MinedTxs : tx.m_id # m_mempool[i].m_id
          /\ GetData(m_mempool[i].m_id) = <<>>

\* C39: once Stop() has returned the peer set is empty, and no peer's
\* connection thread is running or waits to be joined, whatever AddPeer calls
\* began before the return.
C39_StoppedSetEmpty ==
    main_pc = "p_stopped" => m_outbound_peers = <<>>

\* C40: transactions are conserved.  Whenever no MineBlock call is inside the
\* ledger, the pool entries and the transactions of the stored blocks are as
\* many as the completed AddTransaction calls, and every submitted
\* transaction is at exactly one place: one pool position or one position of
\* one block.  While a MineBlock call holds the lock the transactions it took
\* are in its block.  Each AddTransaction appends exactly one pool entry,
\* whatever the pool and the blocks hold.
TxHeld == IF new_block = NoBlock THEN <<>> ELSE new_block.m_transactions
TxPlaces == ChainTxsFrom(1) \o TxHeld \o m_mempool
PlacesOf(tx) == {i \in 1..Len(TxPlaces) : TxPlaces[i] = tx}
C40_Inv ==
    /\ cs_blockweave = "free" =>
          Len(m_mempool) + Len(ChainTxsFrom(1)) = Len(submitted)
    /\ Len(TxPlaces) = Len(submitted)
    /\ \A i \in 1..Len(submitted) : Cardinality(PlacesOf(submitted[i])) = 1
C40_Step ==
    submitted' # submitted =>
        /\ Len(submitted') = Len(submitted) + 1
        /\ m_mempool' = Append(m_mempool, submitted'[Len(submitted')])
        /\ m_block_hashes' = m_block_hashes
        /\ map_blocks' = map_blocks
C40_Conserved == [][C40_Inv /\ C40_Inv' /\ C40_Step]_vars

\* two submitted transactions with the same id and payload, the pool and a
\* mined block both hold transactions, no MineBlock call is running
C40_Witness ==
    /\ cs_blockweave = "free"
    /\ Len(m_block_hashes) >= 2
    /\ m_mempool # <<>>
    /\ \E i, j \in 1..Len(submitted) :
          /\ i < j
          /\ submitted[i].m_id = submitted[j].m_id
          /\ submitted[i].m_data = submitted[j].m_data
          /\ submitted[j] \in Range(m_mempool)
          /\ submitted[i] \in MinedTxs
    /\ Len(m_mempool) + Len(ChainTxsFrom(1)) = Len(submitted)

========================================================================
